---- MODULE Spec2Model ----
(***************************************************************************)
(* Model of the hero sub-plugins of h3sed: the worn-artifact slot          *)
(* allocator and codec (plugins/hero/artifacts.py), the army codec         *)
(* (plugins/hero/army.py) and the inventory codec                          *)
(* (plugins/hero/inventory.py).                                            *)
(*                                                                         *)
(* The catalog (metadata.Store), the position table (plugins.hero.POS),    *)
(* the sentinels (metadata.Blank / metadata.Null) and the byte helpers     *)
(* (util.bytoi / util.itoby) are collaborators whose code is not part of   *)
(* the modelled files; they are modelled from the specification.           *)
(***************************************************************************)
EXTENDS Integers, Sequences, FiniteSets, TLC

VARIABLES
    hero_bytes,      \* hero.bytes: the current buffer
    hero_bytes0,     \* hero.get_bytes(original=True): the original buffer
    hero_stats,      \* hero.stats: derived primary attributes (<<>> when absent)
    hero_basestats,  \* hero.basestats: base primary attributes (<<>> when absent)
    art_state,       \* ArtifactsPlugin._state (hero.artifacts is the same object)
    army_state,      \* ArmyPlugin._state
    army_state0,     \* ArmyPlugin._state0
    inv_state,       \* InventoryPlugin._state
    inv_state0,      \* InventoryPlugin._state0
    last,            \* the last call: its operation, arguments, return value,
                     \* report and, for a serialize, the buffer returned
    dialogs          \* the on_change calls waiting in wx.MessageBox, innermost
                     \* last, and the handler calls run while a dialog is open

vars == <<hero_bytes, hero_bytes0, hero_stats, hero_basestats, art_state,
          army_state, army_state0, inv_state, inv_state0, last, dialogs>>

(***************************************************************************)
(* Python values                                                           *)
(***************************************************************************)
\* Python's None, kept apart from the empty string: both are falsy, and the
\* state comparisons of the code (state0 != self._state) tell them apart.
None == "None"

Truthy(v) == v \notin {None, ""}

Range(s) == {s[i] : i \in DOMAIN s}

\* Number of occurrences of x in the sequence s.
CountIn(s, x) == Cardinality({i \in DOMAIN s : s[i] = x})

(***************************************************************************)
(* The worn-artifact slots: UIPROPS of artifacts.py, in order              *)
(***************************************************************************)
UIPROPS == <<"helm", "neck", "armor", "weapon", "shield", "lefthand", "righthand",
             "cloak", "feet", "side1", "side2", "side3", "side4", "side5">>

SlotNames == Range(UIPROPS)

\* prop.get("slot", prop["name"]): the slot category of a slot name.
PropSlot(name) ==
    CASE name \in {"lefthand", "righthand"} -> "hand"
      [] name \in {"side1", "side2", "side3", "side4", "side5"} -> "side"
      [] OTHER -> name

Categories == {PropSlot(n) : n \in SlotNames}

(***************************************************************************)
(* The catalog (metadata.Store)                                            *)
(***************************************************************************)
\* Store.get("artifact_slots"): artifact name -> occupied slot categories,
\* the first being the primary slot.
ARTIFACT_SLOTS ==
    [n \in {"Helmet", "Crown", "Collar", "Pendant", "Charm", "Twin"} |->
        CASE n = "Helmet"  -> <<"helm">>
          [] n = "Crown"   -> <<"helm", "neck">>
          [] n = "Collar"  -> <<"neck", "helm">>
          [] n = "Pendant" -> <<"neck", "side">>
          [] n = "Charm"   -> <<"side">>
          [] n = "Twin"    -> <<"side", "side">>]

WornArtifacts == DOMAIN ARTIFACT_SLOTS

\* Store.get("artifacts", category="scroll")
SCROLL_ARTIFACTS == {"Spell Scroll"}

\* Store.get("artifacts", category=c)
Artifacts(category) ==
    CASE category = "inventory" -> WornArtifacts \cup SCROLL_ARTIFACTS
      [] category = "scroll"    -> SCROLL_ARTIFACTS
      [] OTHER -> {n \in WornArtifacts : ARTIFACT_SLOTS[n][1] = category}

\* Store.get("creatures")
Creatures == {"Pikeman", "Archer"}

\* An unsigned integer of up to 64 bits is kept as four 16-bit limbs,
\* least significant first, so that 2^32-1 and the 8-byte values are exact.
Num(n) == <<n % 65536, n \div 65536, 0, 0>>

\* Store.get("ids"): name -> id. Creature and artifact ids overlap, and no
\* id is zero: a zero id is one that does not resolve through the catalog.
IDS ==
    [n \in Artifacts("inventory") \cup Creatures |->
        CASE n = "Spell Scroll" -> Num(1)
          [] n = "Helmet"  -> Num(20)
          [] n = "Crown"   -> Num(21)
          [] n = "Collar"  -> Num(22)
          [] n = "Pendant" -> Num(23)
          [] n = "Charm"   -> Num(24)
          [] n = "Twin"    -> Num(300)
          [] n = "Pikeman" -> Num(1)
          [] n = "Archer"  -> Num(2)]

\* metadata.PrimaryAttributes, in order.
PrimaryAttributes == <<"attack", "defense">>

\* Store.get("artifact_stats"): artifact name -> primary attribute deltas.
ARTIFACT_STATS ==
    [n \in {"Helmet", "Crown", "Collar", "Charm"} |->
        CASE n = "Helmet" -> <<0, 2>>
          [] n = "Crown"  -> <<1, 1>>
          [] n = "Collar" -> <<-1, 0>>
          [] n = "Charm"  -> <<1, 0>>]

\* str.lower() on the strings the model uses.
Lower(v) ==
    CASE v \in {"Helmet", "helmet", "HELMET"} -> "helmet"
      [] v = "Crown"   -> "crown"
      [] v = "Collar"  -> "collar"
      [] v = "Pendant" -> "pendant"
      [] v = "Charm"   -> "charm"
      [] v = "Twin"    -> "twin"
      [] v = "Spell Scroll" -> "spell scroll"
      [] v \in {"Pikeman", "pikeman"} -> "pikeman"
      [] v \in {"Archer", "archer", "ARCHER"} -> "archer"
      [] v \in {"Bogus", "bogus"} -> "bogus"
      [] OTHER -> v

\* {x.lower(): x for x in names}[key]
Cmap(names, key) == CHOOSE x \in names : Lower(x) = key

InCmap(names, key) == \E x \in names : Lower(x) = key

(***************************************************************************)
(* ArtifactsPlugin._slots                                                  *)
(***************************************************************************)
\* SLOTS.get(v, ())
SlotsGet(v) == IF v \in DOMAIN ARTIFACT_SLOTS THEN ARTIFACT_SLOTS[v] ELSE <<>>

\* for myprop in MYPROPS: slots_free[myprop.get("slot", myprop["name"])] += 1
RECURSIVE SlotsCapacity(_, _)
SlotsCapacity(i, free) ==
    IF i > Len(UIPROPS) THEN free
    ELSE SlotsCapacity(i + 1, [free EXCEPT ![PropSlot(UIPROPS[i])] = @ + 1])

\* for slot in SLOTS.get(v, ()): slots_free[slot] -= 1; add v to slots_owner[slot]
RECURSIVE SlotsTake(_, _, _)
SlotsTake(v, cats, acc) ==
    IF cats = <<>> THEN acc
    ELSE LET slot == Head(cats) IN
         SlotsTake(v, Tail(cats),
                   [free  |-> [acc.free EXCEPT ![slot] = @ - 1],
                    owner |-> [acc.owner EXCEPT ![slot] =
                                  IF v \in Range(@) THEN @ ELSE Append(@, v)]])

\* for prop1 in MYPROPS: skip the slot given, skip empty slots, take the rest
RECURSIVE SlotsDonned(_, _, _, _)
SlotsDonned(state, prop, i, acc) ==
    IF i > Len(UIPROPS) THEN acc
    ELSE LET name == UIPROPS[i]
             v    == state[name]
         IN  IF prop # None /\ name = prop THEN SlotsDonned(state, prop, i + 1, acc)
             ELSE IF ~Truthy(v) THEN SlotsDonned(state, prop, i + 1, acc)
             ELSE SlotsDonned(state, prop, i + 1, SlotsTake(v, SlotsGet(v), acc))

\* for slot in SLOTS.get(value, ())[1:]: slots_free[slot] -= 1
RECURSIVE SlotsReserve(_, _)
SlotsReserve(cats, free) ==
    IF cats = <<>> THEN free
    ELSE SlotsReserve(Tail(cats), [free EXCEPT ![Head(cats)] = @ - 1])

\* _slots with the hypothetical artifact's primary slot counted as well
\* (SLOTS.get(value, ()) in place of SLOTS.get(value, ())[1:]).
_slots_whole(state, prop, value) ==
    LET free0 == SlotsCapacity(1, [c \in Categories |-> 0])
        acc   == SlotsDonned(state, prop, 1,
                             [free |-> free0, owner |-> [c \in Categories |-> <<>>]])
        free1 == IF prop # None
                 THEN [acc.free EXCEPT ![PropSlot(prop)] = @ - 1]
                 ELSE acc.free
    IN  [free |-> SlotsReserve(SlotsGet(value), free1), owner |-> acc.owner]

\* _slots without the hypothetical artifact's reserved categories.
_slots_noreserve(state, prop, value) ==
    LET free0 == SlotsCapacity(1, [c \in Categories |-> 0])
        acc   == SlotsDonned(state, prop, 1,
                             [free |-> free0, owner |-> [c \in Categories |-> <<>>]])
        free1 == IF prop # None
                 THEN [acc.free EXCEPT ![PropSlot(prop)] = @ - 1]
                 ELSE acc.free
    IN  [free |-> free1, owner |-> acc.owner]

\* _slots that takes the artifact of the slot given like any other.
_slots_count_excluded(state, prop, value) ==
    LET free0 == SlotsCapacity(1, [c \in Categories |-> 0])
        acc   == SlotsDonned(state, None, 1,
                             [free |-> free0, owner |-> [c \in Categories |-> <<>>]])
        free1 == IF prop # None
                 THEN [acc.free EXCEPT ![PropSlot(prop)] = @ - 1]
                 ELSE acc.free
        rest  == IF SlotsGet(value) = <<>> THEN <<>> ELSE Tail(SlotsGet(value))
    IN  [free |-> SlotsReserve(rest, free1), owner |-> acc.owner]

\* _slots that still takes the primary category of the artifact in the
\* slot given.
_slots_keep_primary(state, prop, value) ==
    LET free0 == SlotsCapacity(1, [c \in Categories |-> 0])
        acc   == SlotsDonned(state, prop, 1,
                             [free |-> free0, owner |-> [c \in Categories |-> <<>>]])
        own   == IF prop # None /\ SlotsGet(state[prop]) # <<>>
                 THEN SlotsTake(state[prop], <<Head(SlotsGet(state[prop]))>>, acc)
                 ELSE acc
        free1 == IF prop # None
                 THEN [own.free EXCEPT ![PropSlot(prop)] = @ - 1]
                 ELSE own.free
        rest  == IF SlotsGet(value) = <<>> THEN <<>> ELSE Tail(SlotsGet(value))
    IN  [free |-> SlotsReserve(rest, free1), owner |-> own.owner]

\* _slots(prop, value) over the worn state `state`; prop = None for no slot.
\* Returns [free |-> category -> free count, owner |-> category -> owners].
_slots(state, prop, value) ==
    LET free0 == SlotsCapacity(1, [c \in Categories |-> 0])
        acc   == SlotsDonned(state, prop, 1,
                             [free |-> free0, owner |-> [c \in Categories |-> <<>>]])
        free1 == IF prop # None
                 THEN [acc.free EXCEPT ![PropSlot(prop)] = @ - 1]
                 ELSE acc.free
        rest  == IF SlotsGet(value) = <<>> THEN <<>> ELSE Tail(SlotsGet(value))
    IN  [free |-> SlotsReserve(rest, free1), owner |-> acc.owner]

\* slots_full holding the first full category only.
SlotsFullFirst(slots) ==
    LET full == {k \in Categories : slots.free[k] < 0}
    IN  IF full = {} THEN {} ELSE {CHOOSE k \in full : TRUE}

\* slots_full = [k for k, v in slots_free.items() if v < 0]
SlotsFull(slots) == {k \in Categories : slots.free[k] < 0}

\* The conflict report: every full category with the sorted owners of it.
Report(slots) == {<<k, Range(slots.owner[k])>> : k \in SlotsFull(slots)}

(***************************************************************************)
(* Bytes and integers (metadata.Blank, metadata.Null, util.bytoi/itoby)    *)
(***************************************************************************)
\* metadata.Blank and metadata.Null: the two sentinel byte values.
Blank == 255
Null  == 0

\* n copies of the byte x (metadata.Blank * n).
Times(x, n) == [i \in 1..n |-> x]

\* util.bytoi(blob): little-endian bytes (4 or 8 of them) to an integer.
bytoi(blob) ==
    LET limb(k) == IF 2 * k <= Len(blob) THEN blob[2 * k - 1] + 256 * blob[2 * k] ELSE 0
    IN  <<limb(1), limb(2), limb(3), limb(4)>>

\* util.itoby(v, length): an integer to `length` little-endian bytes.
itoby(v, length) ==
    [i \in 1..length |->
        LET limb == v[(i + 1) \div 2]
        IN  IF i % 2 = 1 THEN limb % 256 ELSE limb \div 256]

\* Python's buf[p:q] on a 0-based buffer.
Slice(buf, p, q) ==
    LET hi == IF q < Len(buf) THEN q ELSE Len(buf)
    IN  IF p >= hi THEN <<>> ELSE SubSeq(buf, p + 1, hi)

\* Python's buf[p:p] = b: the bytes are inserted and none is replaced.
SetSliceInsert(buf, p, q, b) ==
    LET lo == IF p < Len(buf) THEN p ELSE Len(buf)
    IN  SubSeq(buf, 1, lo) \o b \o SubSeq(buf, lo + 1, Len(buf))

\* Python's buf[p:q] = b (slice assignment), returning the new buffer.
SetSlice(buf, p, q, b) ==
    LET lo == IF p < Len(buf) THEN p ELSE Len(buf)
        hi == IF q < lo THEN lo ELSE IF q < Len(buf) THEN q ELSE Len(buf)
    IN  SubSeq(buf, 1, lo) \o b \o SubSeq(buf, hi + 1, Len(buf))

(***************************************************************************)
(* The position table (plugins.hero.POS) and the item list sizes           *)
(***************************************************************************)
\* UIPROPS[0]["max"] of army.py and of inventory.py.
ArmyMax == 7
InvMax  == 3

\* Index of x in the sequence s.
IndexOf(s, x) == CHOOSE i \in DOMAIN s : s[i] = x

ReservedOrder == <<"helm", "neck", "armor", "weapon", "shield", "hand", "cloak",
                   "feet", "side">>

\* MYPOS[field]: 0-based byte offset of a field in the hero's bytes.
POS(field) ==
    CASE field = "army_types"  -> 1
      [] field = "army_counts" -> 1 + 4 * ArmyMax
      [] field \in SlotNames   -> 1 + 8 * ArmyMax + 8 * (IndexOf(UIPROPS, field) - 1)
      [] field = "inventory"   -> 1 + 8 * ArmyMax + 8 * Len(UIPROPS) + Len(ReservedOrder)

\* MYPOS["reserved"][slot]: offset of a category's reserved-capacity counter.
POS_reserved(slot) ==
    1 + 8 * ArmyMax + 8 * Len(UIPROPS) + (IndexOf(ReservedOrder, slot) - 1)

(***************************************************************************)
(* ArtifactsPlugin.parse / serialize                                       *)
(***************************************************************************)
\* NAMES.get(v) with NAMES = {IDS[y]: y for y in names}
NamesGet(names, v) ==
    IF \E y \in names : IDS[y] = v
    THEN CHOOSE y \in names : IDS[y] = v
    ELSE None

\* The None that parse_item returns for a blank slot (no integer).
NoItem == <<>>

\* parse_item that takes the 4-byte id for every worn artifact.
ArtParseItemNarrow(bytes, pos) ==
    LET b == Slice(bytes, pos, pos + 4)
    IN  IF \A i \in DOMAIN b : b[i] = Blank THEN NoItem
        ELSE bytoi(b)

\* parse_item(pos) of ArtifactsPlugin.parse: None for a blank id, else the
\* 8-byte value for a Spell Scroll id, else the 4-byte id.
ArtParseItem(bytes, pos) ==
    LET b == Slice(bytes, pos, pos + 4)
        v == bytoi(b)
    IN  IF \A i \in DOMAIN b : b[i] = Blank THEN NoItem
        ELSE IF v = IDS["Spell Scroll"] THEN bytoi(Slice(bytes, pos, pos + 8))
        ELSE v

\* ArtifactsPlugin.parse(hero)
ArtParse(bytes) ==
    [name \in SlotNames |->
        LET v == ArtParseItem(bytes, POS(name))
        IN  NamesGet(Artifacts("inventory"), v)]

\* One slot of ArtifactsPlugin.serialize: write the slot, bump the counters.
RECURSIVE ArtBump(_, _)
ArtBump(cats, result) ==
    IF cats = <<>> THEN result
    ELSE ArtBump(Tail(cats),
                 [result EXCEPT ![POS_reserved(Head(cats)) + 1] = @ + 1])

\* serialize that leaves the bytes of an empty slot as they are.
RECURSIVE ArtSerializeKeepEmpty(_, _, _)
ArtSerializeKeepEmpty(state, i, result) ==
    IF i > Len(UIPROPS) THEN result
    ELSE LET name == state[UIPROPS[i]]
             pos  == POS(UIPROPS[i])
             b    == IF name \notin Artifacts("inventory") THEN Slice(result, pos, pos + 8)
                     ELSE itoby(IDS[name], 4) \o Times(Blank, 4)
             rest == IF SlotsGet(name) = <<>> THEN <<>> ELSE Tail(SlotsGet(name))
         IN  ArtSerializeKeepEmpty(state, i + 1,
                                   ArtBump(rest, SetSlice(result, pos, pos + Len(b), b)))

RECURSIVE ArtSerializeFrom(_, _, _)
ArtSerializeFrom(state, i, result) ==
    IF i > Len(UIPROPS) THEN result
    ELSE LET name == state[UIPROPS[i]]
             pos  == POS(UIPROPS[i])
             b    == IF name \notin Artifacts("inventory") THEN Times(Blank, 8)
                     ELSE itoby(IDS[name], 4) \o Times(Blank, 4)
             rest == IF SlotsGet(name) = <<>> THEN <<>> ELSE Tail(SlotsGet(name))
         IN  ArtSerializeFrom(state, i + 1,
                              ArtBump(rest, SetSlice(result, pos, pos + Len(b), b)))

\* serialize that zeroes one byte more than the reserved counters.
ArtSerializeZeroBeyond(state, bytes) ==
    LET pos_reserved == POS_reserved(ReservedOrder[1])
        len_reserved == Len(ReservedOrder) + 1
        zeroed == SetSlice(bytes, pos_reserved, pos_reserved + len_reserved,
                           Times(0, len_reserved))
    IN  ArtSerializeFrom(state, 1, zeroed)

\* serialize that adds to the counters found in the buffer.
ArtSerializeNoReset(state, bytes) == ArtSerializeFrom(state, 1, bytes)

\* ArtifactsPlugin.serialize()
ArtSerialize(state, bytes) ==
    LET pos_reserved == POS_reserved(ReservedOrder[1])
        len_reserved == Len(ReservedOrder)
        zeroed == SetSlice(bytes, pos_reserved, pos_reserved + len_reserved,
                           Times(0, len_reserved))
    IN  ArtSerializeFrom(state, 1, zeroed)

(***************************************************************************)
(* ArtifactsPlugin._apply_artifact_stats                                   *)
(***************************************************************************)
\* diff: the sum of STATS[item] over the donned items, slot by slot.
RECURSIVE StatsDiff(_, _, _)
StatsDiff(state, i, diff) ==
    IF i > Len(UIPROPS) THEN diff
    ELSE LET item == state[UIPROPS[i]]
         IN  StatsDiff(state, i + 1,
                       IF item \in DOMAIN ARTIFACT_STATS
                       THEN [k \in DOMAIN diff |-> diff[k] + ARTIFACT_STATS[item][k]]
                       ELSE diff)

Min(a, b) == IF a < b THEN a ELSE b
Max(a, b) == IF a > b THEN a ELSE b

\* Returns [result |-> whether anything changed, stats |-> the new hero.stats].
_apply_artifact_stats(state, stats, basestats) ==
    IF stats = <<>> \/ basestats = <<>> THEN [result |-> FALSE, stats |-> stats]
    ELSE LET diff == StatsDiff(state, 1, [k \in DOMAIN PrimaryAttributes |-> 0])
             new  == [k \in DOMAIN PrimaryAttributes |->
                         Min(Max(0, basestats[k] + diff[k]), 127)]
         IN  [result |-> new # stats, stats |-> new]

(***************************************************************************)
(* ArtifactsPlugin.load / on_change / load_state                           *)
(***************************************************************************)
\* A call record with no mapping argument.
NoArg == [n \in {} |-> None]

\* The record of a call. ret is whether the call returned a true value: it
\* is FALSE for a call that returned False, for one that returned nothing
\* because it raised and for one that has not returned yet; raised is the
\* exception that ended the call, None when the call returned. dialog is
\* "open" for an on_change call that has shown wx.MessageBox and waits in
\* it, "closed" for the return of such a call, None for every other call.
Call(op, name, value, arg, ret, report) ==
    [op |-> op, name |-> name, value |-> value, arg |-> arg, ret |-> ret,
     report |-> report, out |-> <<>>, changed |-> FALSE, raised |-> None,
     dialog |-> None]

\* The record of a serialize call: out is the buffer it returned. changed is
\* what _apply_artifact_stats returned in the call, FALSE when it did not run.
Returned(op, out) ==
    [op |-> op, name |-> None, value |-> None, arg |-> NoArg, ret |-> TRUE,
     report |-> {}, out |-> out, changed |-> FALSE, raised |-> None,
     dialog |-> None]

\* The number of handler calls the model lets the event loop of the open
\* dialogs run before the dialogs close.
DialogCallbacks == 1

\* No on_change call waits in a dialog.
NoDialogs == [open |-> <<>>, ran |-> 0]

\* wx.MessageBox is modal: it runs a nested event loop until the user closes
\* it, and the callbacks of that loop (timers, wx.CallAfter, posted events)
\* call handlers while the on_change that opened it has not returned. A
\* handler call can start at top level or as such a callback.
CanRun == dialogs.open = <<>> \/ dialogs.ran < DialogCallbacks

\* dialogs after the start of a handler call.
Ran == IF dialogs.open = <<>> THEN dialogs ELSE [dialogs EXCEPT !.ran = @ + 1]

\* A handler call that opens no dialog.
Handled == CanRun /\ dialogs' = Ran

\* Whether ArtifactsPlugin.load has filled self._state.
ArtLoaded == DOMAIN art_state = SlotNames

\* hero.artifacts = self._state: the hero's mapping is the plugin's own object.
hero_artifacts == art_state

\* ArtifactsPlugin.load(hero, panel). hero.ensure_basestats() belongs to the
\* hero record, which is not part of the modelled files: the heroes of the
\* model carry the base values it ensures, or have no stats at all.
ArtLoad ==
    /\ art_state' = ArtParse(hero_bytes)
    /\ last' = Call("load", None, None, NoArg, TRUE, {})
    /\ Handled
    /\ UNCHANGED <<hero_bytes, hero_bytes0, hero_stats, hero_basestats,
                   army_state, army_state0, inv_state, inv_state0>>

\* The loop of update_slots from the i-th slot on: whether it raises. An
\* empty slot whose category has owners takes one of the category's free
\* count when that is not zero; when it is zero the slot is shown as taken
\* by the first owner that occupies more than one category, and next()
\* raises StopIteration when no owner does.
RECURSIVE UpdateSlotsRaises(_, _, _, _)
UpdateSlotsRaises(state, i, free, owner) ==
    IF i > Len(UIPROPS) THEN FALSE
    ELSE LET name == UIPROPS[i]
             slot == PropSlot(name)
         IN  IF Truthy(state[name]) \/ owner[slot] = <<>>
             THEN UpdateSlotsRaises(state, i + 1, free, owner)
             ELSE IF free[slot] # 0
             THEN UpdateSlotsRaises(state, i + 1, [free EXCEPT ![slot] = @ - 1], owner)
             ELSE IF \E j \in DOMAIN owner[slot] : Len(SlotsGet(owner[slot][j])) > 1
             THEN UpdateSlotsRaises(state, i + 1, free, owner)
             ELSE TRUE

\* ArtifactsPlugin.update_slots(): the exception it ends with, None when it
\* returns. What it does to the controls is not tracked.
update_slots(state) ==
    LET slots == _slots(state, None, None)
    IN  IF UpdateSlotsRaises(state, 1, slots.free, slots.owner)
        THEN "StopIteration"
        ELSE None

\* on_change that stores the new value before the check and leaves it there
\* when the check fails.
on_change_commit_first(state, stats, basestats, name, value) ==
    LET v2    == IF Truthy(value) THEN value ELSE None
        v1    == state[name]
        new   == [state EXCEPT ![name] = v2]
        slots == _slots(new, name, v2)
    IN  IF v2 = v1
        THEN [ret |-> FALSE, report |-> {}, state |-> state, stats |-> stats,
              changed |-> FALSE, raised |-> None, dialog |-> FALSE]
        ELSE IF SlotsFull(slots) # {}
        THEN [ret |-> FALSE, report |-> Report(slots), state |-> new, stats |-> stats,
              changed |-> FALSE, raised |-> None, dialog |-> TRUE]
        ELSE LET applied == _apply_artifact_stats(new, stats, basestats)
                 raised  == update_slots(new)
             IN  [ret |-> raised = None, report |-> {}, state |-> new,
                  stats |-> applied.stats, changed |-> applied.result,
                  raised |-> raised, dialog |-> FALSE]

\* The outcome of ArtifactsPlugin.on_change(prop, row, ctrl, value) on a worn
\* state: [ret, report, state, stats, changed, raised, dialog]; dialog is
\* whether the call showed wx.MessageBox on its way. An accepted change
\* is stored and applied to the stats before update_slots runs, so a call
\* that update_slots ends with StopIteration has changed both and returns
\* nothing.
on_change(state, stats, basestats, name, value) ==
    LET v2    == IF Truthy(value) THEN value ELSE None
        v1    == state[name]
        slots == _slots(state, name, v2)
        new   == [state EXCEPT ![name] = v2]
    IN  IF v2 = v1
        THEN [ret |-> FALSE, report |-> {}, state |-> state, stats |-> stats,
              changed |-> FALSE, raised |-> None, dialog |-> FALSE]
        ELSE IF SlotsFull(slots) # {}
        THEN [ret |-> FALSE, report |-> Report(slots), state |-> state, stats |-> stats,
              changed |-> FALSE, raised |-> None, dialog |-> TRUE]
        ELSE LET applied == _apply_artifact_stats(new, stats, basestats)
                 raised  == update_slots(new)
             IN  [ret |-> raised = None, report |-> {}, state |-> new,
                  stats |-> applied.stats, changed |-> applied.result,
                  raised |-> raised, dialog |-> FALSE]

\* The choices of a slot's combo box: "" and the artifacts of its category.
Choices(name) == {""} \cup Artifacts(PropSlot(name))

\* The call of on_change up to its return or, when it finds a conflict, up
\* to wx.MessageBox (lines 299-310): the call then waits in the dialog with
\* nothing returned, and ArtOnChangeReturn is the rest of it.
ArtOnChange(name, value) ==
    /\ ArtLoaded
    /\ CanRun
    /\ \E r \in {on_change(art_state, hero_stats, hero_basestats, name, value)} :
         /\ art_state' = r.state
         /\ hero_stats' = r.stats
         /\ last' = [Call("on_change", name, value, NoArg, r.ret, r.report)
                       EXCEPT !.changed = r.changed, !.raised = r.raised,
                              !.dialog = IF r.dialog THEN "open" ELSE None]
         /\ dialogs' = IF r.dialog
                       THEN [Ran EXCEPT !.open = Append(@,
                                [name |-> name, value |-> value, report |-> r.report])]
                       ELSE Ran
    /\ UNCHANGED <<hero_bytes, hero_bytes0, hero_basestats,
                   army_state, army_state0, inv_state, inv_state0>>

\* The innermost dialog closes and the on_change call that opened it goes
\* on (lines 311-312): it sets the control back to the value the slot had
\* when the call began, which is not tracked, and returns False.
ArtOnChangeReturn ==
    /\ dialogs.open # <<>>
    /\ LET n == Len(dialogs.open)
           d == dialogs.open[n]
       IN  /\ last' = [Call("on_change", d.name, d.value, NoArg, FALSE, d.report)
                         EXCEPT !.dialog = "closed"]
           /\ dialogs' = IF n = 1 THEN NoDialogs
                         ELSE [dialogs EXCEPT !.open = SubSeq(@, 1, n - 1)]
    /\ UNCHANGED <<hero_bytes, hero_bytes0, hero_stats, hero_basestats, art_state,
                   army_state, army_state0, inv_state, inv_state0>>

\* A first pass that dons an item only when the slots it needs are free in
\* the state as it is by then.
RECURSIVE LoadStateDonChecked(_, _, _)
LoadStateDonChecked(state, given, i) ==
    IF i > Len(UIPROPS) THEN state
    ELSE LET name == UIPROPS[i]
             slot == PropSlot(name)
         IN  IF name \notin DOMAIN given THEN LoadStateDonChecked(state, given, i + 1)
             ELSE LET v == given[name]
                  IN  IF /\ ~Truthy(v) \/ InCmap(Artifacts(slot), Lower(v))
                         /\ SlotsFull(_slots(state, name, v)) = {}
                      THEN LoadStateDonChecked([state EXCEPT ![name] = v], given, i + 1)
                      ELSE LoadStateDonChecked(state, given, i + 1)

\* A first pass that ends at the first invalid entry, the entries after it
\* not being applied.
RECURSIVE LoadStateDonStopAtInvalid(_, _, _)
LoadStateDonStopAtInvalid(state, given, i) ==
    IF i > Len(UIPROPS) THEN state
    ELSE LET name == UIPROPS[i]
             slot == PropSlot(name)
         IN  IF name \notin DOMAIN given
             THEN LoadStateDonStopAtInvalid(state, given, i + 1)
             ELSE LET v == given[name]
                  IN  IF ~Truthy(v) \/ InCmap(Artifacts(slot), Lower(v))
                      THEN LoadStateDonStopAtInvalid([state EXCEPT ![name] = v],
                                                     given, i + 1)
                      ELSE state

\* First pass of load_state: don every item that is falsy or whose lowercase
\* is a name of the slot's category; the value is stored as given.
RECURSIVE LoadStateDon(_, _, _)
LoadStateDon(state, given, i) ==
    IF i > Len(UIPROPS) THEN state
    ELSE LET name == UIPROPS[i]
             slot == PropSlot(name)
         IN  IF name \notin DOMAIN given THEN LoadStateDon(state, given, i + 1)
             ELSE LET v == given[name]
                  IN  IF ~Truthy(v) \/ InCmap(Artifacts(slot), Lower(v))
                      THEN LoadStateDon([state EXCEPT ![name] = v], given, i + 1)
                      ELSE LoadStateDon(state, given, i + 1)

\* A second pass that validates every slot against the state left by the
\* first pass and clears all the slots found in conflict at once.
LoadStateValidateSnapshot(acc, i) ==
    [state  |-> [n \in SlotNames |->
                    IF /\ Truthy(acc.state[n])
                       /\ SlotsFull(_slots(acc.state, n, acc.state[n])) # {}
                    THEN None
                    ELSE acc.state[n]],
     report |-> acc.report]

\* Second pass of load_state: every non-empty slot whose _slots(prop, v) has
\* a negative free count is set to None, slot by slot, on the state as it is
\* by then. acc = [state, report].
RECURSIVE LoadStateValidate(_, _)
LoadStateValidate(acc, i) ==
    IF i > Len(UIPROPS) THEN acc
    ELSE LET name  == UIPROPS[i]
             v     == acc.state[name]
             slots == _slots(acc.state, name, v)
         IN  IF ~Truthy(v) THEN LoadStateValidate(acc, i + 1)
             ELSE IF SlotsFull(slots) # {}
             THEN LoadStateValidate(
                      [state  |-> [acc.state EXCEPT ![name] = None],
                       report |-> acc.report \cup {<<name, v, Report(slots)>>}],
                      i + 1)
             ELSE LoadStateValidate(acc, i + 1)

\* The outcome of ArtifactsPlugin.load_state(state): [ret, report, state,
\* stats, changed].
load_state(state0, stats, basestats, given) ==
    LET acc    == LoadStateValidate(
                      [state |-> LoadStateDon(state0, given, 1), report |-> {}], 1)
        result == state0 # acc.state
    IN  [ret |-> result, report |-> acc.report, state |-> acc.state,
         stats |-> IF result
                   THEN _apply_artifact_stats(acc.state, stats, basestats).stats
                   ELSE stats,
         changed |-> result /\ _apply_artifact_stats(acc.state, stats, basestats).result]

ArtLoadState(given) ==
    /\ ArtLoaded
    /\ \E r \in {load_state(art_state, hero_stats, hero_basestats, given)} :
         /\ art_state' = r.state
         /\ hero_stats' = r.stats
         /\ last' = [Call("load_state", None, None, given, r.ret, r.report)
                       EXCEPT !.changed = r.changed]
    /\ Handled
    /\ UNCHANGED <<hero_bytes, hero_bytes0, hero_basestats,
                   army_state, army_state0, inv_state, inv_state0>>

(***************************************************************************)
(* Hero records                                                            *)
(***************************************************************************)
RECURSIVE Flatten(_)
Flatten(ss) == IF ss = <<>> THEN <<>> ELSE Head(ss) \o Flatten(Tail(ss))

\* The 8 bytes of a worn or inventory slot holding a catalog artifact.
EncArt(name) == itoby(IDS[name], 4) \o Times(Blank, 4)

\* The hero's bytes from its sections; one unrelated byte on either side.
HeroBytes(armytypes, armycounts, worn, reserved, inv) ==
    <<17>> \o Flatten(armytypes) \o Flatten(armycounts)
           \o Flatten([i \in 1..Len(UIPROPS) |-> worn[UIPROPS[i]]])
           \o reserved \o Flatten(inv) \o <<42>>

BlankArmy == [i \in 1..ArmyMax |-> Times(Blank, 4)]
BlankInv  == [i \in 1..InvMax |-> Times(Blank, 8)]
NoReserved == Times(0, Len(ReservedOrder))

\* The worn section that encodes a worn configuration.
WornOf(cfg) ==
    [n \in SlotNames |-> IF cfg[n] = None THEN Times(Blank, 8) ELSE EncArt(cfg[n])]

Bare == [n \in SlotNames |-> None]

\* The heroes loaded, each a worn configuration with hero.stats and
\* hero.basestats (<<>>: the hero has no stats loaded): nothing worn; two
\* combination artifacts that claim each other's slot; two helmets in side
\* slots (raw bytes are not validated against the slot's category); a full
\* side row with a combination artifact in it.
Heroes ==
    { [worn |-> Bare, stats |-> <<0, 1>>, basestats |-> <<0, 1>>],
      [worn |-> [Bare EXCEPT !["helm"] = "Crown", !["neck"] = "Collar"],
       stats |-> <<>>, basestats |-> <<>>],
      [worn |-> [Bare EXCEPT !["side4"] = "Helmet", !["side5"] = "Helmet"],
       stats |-> <<126, 127>>, basestats |-> <<126, 126>>],
      [worn |-> [Bare EXCEPT !["helm"] = "Helmet", !["side1"] = "Twin",
                             !["side2"] = "Charm", !["side3"] = "Charm",
                             !["side4"] = "Charm", !["side5"] = "Charm"],
       stats |-> <<4, 3>>, basestats |-> <<0, 1>>] }

(***************************************************************************)
(* Worn artifacts: interactive equip and bulk load                         *)
(***************************************************************************)
\* The plugins are constructed (empty states) and a hero record exists.
Init ==
    /\ \E h \in Heroes :
          /\ hero_bytes = HeroBytes(BlankArmy, BlankArmy, WornOf(h.worn),
                                    NoReserved, BlankInv)
          /\ hero_stats = h.stats
          /\ hero_basestats = h.basestats
    /\ hero_bytes0 = hero_bytes
    /\ art_state = NoArg
    /\ army_state = <<>>
    /\ army_state0 = <<>>
    /\ inv_state = <<>>
    /\ inv_state0 = <<>>
    /\ last = Call("init", None, None, NoArg, TRUE, {})
    /\ dialogs = NoDialogs

\* The values the model selects in a slot's combo box: all of its choices,
\* except that the side slots being interchangeable, the combination artifact
\* of the side row is selected in the last side slot only.
Selected(name) ==
    IF name \in {"side1", "side2", "side3", "side4"}
    THEN Choices(name) \ {"Twin"}
    ELSE Choices(name)

\* The slots the model edits: those whose category has artifacts in the
\* catalog, and armor for the seven slots whose category has none.
Edited == {n \in SlotNames : Artifacts(PropSlot(n)) # {}} \cup {"armor"}

Next ==
    \/ ArtLoad
    \/ \E name \in Edited : \E value \in Selected(name) : ArtOnChange(name, value)
    \/ ArtOnChangeReturn

Spec == Init /\ [][Next]_vars

(***************************************************************************)
(* Slot capacity, stated directly                                          *)
(***************************************************************************)
\* Number of slot names of a category.
Capacity(c) == Cardinality({n \in SlotNames : PropSlot(n) = c})

\* cats[1:]
Rest(cats) == IF cats = <<>> THEN <<>> ELSE Tail(cats)

\* Occurrences of category c in the occupied-category lists of the artifacts
\* donned in the slots other than excl.
Consumed(state, excl, c) ==
    Cardinality(UNION {{<<n, i>> : i \in {j \in DOMAIN SlotsGet(state[n]) :
                                             SlotsGet(state[n])[j] = c}} :
                       n \in {m \in SlotNames : m # excl /\ Truthy(state[m])}})

\* Free count of category c with slot excl excluded (None: no slot) and v as
\* the hypothetical artifact.
FreeCount(state, excl, v, c) ==
    Capacity(c) - Consumed(state, excl, c)
                - (IF excl # None /\ PropSlot(excl) = c THEN 1 ELSE 0)
                - CountIn(Rest(SlotsGet(v)), c)

\* The artifacts donned in the slots other than excl that occupy category c.
Owners(state, excl, c) ==
    {state[n] : n \in {m \in SlotNames : m # excl /\ Truthy(state[m])
                                        /\ c \in Range(SlotsGet(state[m]))}}

\* No slot category is over-subscribed.
NoOversubscription(state) ==
    \A c \in Categories : FreeCount(state, None, None, c) >= 0

\* value or None
OrNone(value) == IF Truthy(value) THEN value ELSE None

SideSlots == {n \in SlotNames : PropSlot(n) = "side"}

(***************************************************************************)
(* Claims: interactive equip                                               *)
(***************************************************************************)
\* The call gave no true value and did not raise: it found a conflict and
\* waits in the dialog, or has returned False after the dialog or because
\* the value is the one the slot holds.
Refused(call) == ~call.ret /\ call.raised = None

\* The step in which on_change is called, as opposed to the one in which it
\* returns from the dialog.
Called(call) == call.op = "on_change" /\ call.dialog # "closed"

\* C1: an equip of v into slot s, v differing from the slot's value, is
\* rejected exactly when some category has a negative free count with s
\* excluded and v hypothetical, in the state the call finds, and the report
\* names every such category with the artifacts of the other slots that
\* occupy it. A rejected call shows the report in a dialog and, when the
\* dialog closes, returns False with the mapping left as it is by then.
C1_EquipRejectedIffNegative ==
    [][ /\ (Called(last') /\ OrNone(last'.value) # art_state[last'.name]) =>
              LET s == last'.name
                  v == OrNone(last'.value)
              IN  \A neg \in {{c \in Categories : FreeCount(art_state, s, v, c) < 0}} :
                      /\ last'.dialog = "open" <=> (neg # {})
                      /\ Refused(last') <=> (neg # {})
                      /\ Refused(last') => art_state' = art_state
                      /\ ~Refused(last') => art_state'[s] = v
                      /\ last'.report = {<<c, Owners(art_state, s, c)>> : c \in neg}
        /\ (last'.op = "on_change" /\ last'.dialog = "closed") =>
              LET d == dialogs.open[Len(dialogs.open)]
              IN  /\ Refused(last')
                  /\ art_state' = art_state
                  /\ <<last'.name, last'.value, last'.report>> =
                         <<d.name, d.value, d.report>>
      ]_vars

\* A rejected equip whose report names two categories has returned.
C1_Witness ==
    /\ last.op = "on_change"
    /\ last.dialog = "closed"
    /\ ~last.ret
    /\ Cardinality({r[1] : r \in last.report}) >= 2

\* C2: an equip that finds a conflict writes nothing: the step that finds
\* the conflict and opens the dialog and the step that returns from it each
\* leave the worn mapping, hero.artifacts and the hero's stats as they
\* were, so that these differ after the call from what they were before it
\* only by what other handlers did while the dialog was open. An accepted
\* equip checks and commits in one step, and changes the mapping at the
\* slot equipped and nowhere else.
C2_EquipAllOrNothing ==
    [][ last'.op = "on_change" =>
          /\ Refused(last') => /\ art_state' = art_state
                                /\ hero_artifacts' = hero_artifacts
                                /\ hero_stats' = hero_stats
          /\ ~Refused(last') => /\ last'.dialog = None
                                 /\ art_state' = [art_state EXCEPT
                                                    ![last'.name] = OrNone(last'.value)]
      ]_vars

\* An equip rejected for a conflict has returned, on a hero that has stats.
C2_Witness ==
    /\ last.op = "on_change"
    /\ last.dialog = "closed"
    /\ ~last.ret
    /\ last.report # {}
    /\ hero_stats # <<>>

\* The equip of a [side, side] artifact into an empty side slot while the
\* other side slots hold `singles` single-slot side artifacts and are empty
\* otherwise.
TwinEquip(state, call, singles) ==
    /\ Called(call)
    /\ PropSlot(call.name) = "side"
    /\ SlotsGet(call.value) = <<"side", "side">>
    /\ ~Truthy(state[call.name])
    /\ \A n \in SideSlots \ {call.name} :
          ~Truthy(state[n]) \/ SlotsGet(state[n]) = <<"side">>
    /\ Cardinality({n \in SideSlots \ {call.name} : Truthy(state[n])}) = singles

\* Nothing outside the side slots occupies side, and no other category is
\* over-subscribed.
CleanElsewhere(state) ==
    /\ \A n \in SlotNames \ SideSlots : "side" \notin Range(SlotsGet(state[n]))
    /\ \A c \in Categories \ {"side"} : FreeCount(state, None, None, c) >= 0

\* C3: with the other 4 side slots each holding a single-slot side artifact,
\* donning a [side, side] artifact into the empty side slot is rejected and
\* side is a reported conflict category (the only one when nothing else is
\* over-subscribed).
C3_TwinRejectedAtFour ==
    [][ TwinEquip(art_state, last', Capacity("side") - 1) =>
          /\ ~last'.ret
          /\ last'.dialog = "open"
          /\ art_state' = art_state
          /\ "side" \in {r[1] : r \in last'.report}
          /\ CleanElsewhere(art_state) => {r[1] : r \in last'.report} = {"side"}
      ]_vars

C3_Witness ==
    /\ last.op = "on_change"
    /\ last.dialog = "closed"
    /\ last.value = "Twin"
    /\ ~last.ret
    /\ art_state[last.name] = None
    /\ {r[1] : r \in last.report} = {"side"}
    /\ \A n \in SideSlots \ {last.name} : art_state[n] = "Charm"

\* C4 as stated: with exactly 3 other side slots holding a single-slot side
\* artifact, the equip is accepted and the resulting state counts 1 free
\* side slot.
C4_Original ==
    [][ (TwinEquip(art_state, last', Capacity("side") - 2)
         /\ CleanElsewhere(art_state)) =>
          /\ last'.ret
          /\ _slots(art_state', None, None).free["side"] = 1
      ]_vars

\* C4 amended: the equip is accepted and the resulting state counts no free
\* side slot (3 single artifacts, the primary slot and the reserved one).
C4_TwinAcceptedAtThree ==
    [][ (TwinEquip(art_state, last', Capacity("side") - 2)
         /\ CleanElsewhere(art_state)) =>
          /\ last'.ret
          /\ art_state'[last'.name] = last'.value
          /\ _slots(art_state', None, None).free["side"] = 0
      ]_vars

C4_Witness ==
    /\ last.op = "on_change"
    /\ last.value = "Twin"
    /\ last.ret
    /\ art_state[last.name] = "Twin"
    /\ Cardinality({n \in SideSlots : art_state[n] = "Charm"}) = 3
    /\ CleanElsewhere(art_state)

(***************************************************************************)
(* ArmyPlugin                                                              *)
(***************************************************************************)
\* A row of the army state is a dict with keys among name and count.
EmptyRow == [k \in {} |-> None]

Row(name, count) == [name |-> name, count |-> count]

\* row.get("count") of a row that has no count (None, kept as a tuple so
\* that it compares with the limb integers).
NoCount == <<>>

\* row.get(k)
RowGet(row, k) ==
    IF k \in DOMAIN row THEN row[k]
    ELSE IF k = "count" THEN NoCount ELSE None

Zero == Num(0)

\* not count
CountFalsy(count) == count \in {NoCount, Zero}

\* a <= b on limb integers
Leq(a, b) ==
    LET diff == {i \in DOMAIN a : a[i] # b[i]}
    IN  \/ diff = {}
        \/ LET m == CHOOSE i \in diff : \A j \in diff : j <= i
           IN  a[m] < b[m]

\* UIPROPS[0]["item"] count: "min": 1, "max": 2**32 - 1
CountMin == Num(1)
CountMax == <<65535, 65535, 0, 0>>

ArmyPosTypes(i)  == POS("army_types") + (i - 1) * 4
ArmyPosCounts(i) == POS("army_counts") + (i - 1) * 4

\* parse that keeps a catalog creature whose count is zero.
ArmyParseKeepZero(bytes) ==
    [i \in 1..ArmyMax |->
        LET unit  == bytoi(Slice(bytes, ArmyPosTypes(i), ArmyPosTypes(i) + 4))
            count == bytoi(Slice(bytes, ArmyPosCounts(i), ArmyPosCounts(i) + 4))
            name  == NamesGet(Creatures, unit)
        IN  IF unit = Zero \/ name = None THEN EmptyRow
            ELSE Row(name, count)]

\* ArmyPlugin.parse(hero)
ArmyParse(bytes) ==
    [i \in 1..ArmyMax |->
        LET unit  == bytoi(Slice(bytes, ArmyPosTypes(i), ArmyPosTypes(i) + 4))
            count == bytoi(Slice(bytes, ArmyPosCounts(i), ArmyPosCounts(i) + 4))
            name  == NamesGet(Creatures, unit)
        IN  IF unit = Zero \/ count = Zero \/ name = None THEN EmptyRow
            ELSE Row(name, count)]

\* serialize that writes every empty slot as blank type and zero count.
RECURSIVE ArmySerializeNormalize(_, _, _, _, _)
ArmySerializeNormalize(state, state0, bytes0, i, result) ==
    IF i > ArmyMax THEN result
    ELSE LET name  == RowGet(state[i], "name")
             count == RowGet(state[i], "count")
             known == ~CountFalsy(count) /\ name \in Creatures
             b1 == IF known THEN itoby(IDS[name], 4) ELSE Times(Blank, 4)
             b2 == IF known THEN itoby(count, 4) ELSE Times(Null, 4)
         IN  ArmySerializeNormalize(state, state0, bytes0, i + 1,
                 SetSlice(SetSlice(result, ArmyPosTypes(i), ArmyPosTypes(i) + 4, b1),
                          ArmyPosCounts(i), ArmyPosCounts(i) + 4, b2))

\* serialize that writes the blank sentinel into both fields of a slot that
\* is neither retained nor resolvable.
RECURSIVE ArmySerializeBlankBoth(_, _, _, _, _)
ArmySerializeBlankBoth(state, state0, bytes0, i, result) ==
    IF i > ArmyMax THEN result
    ELSE LET name   == RowGet(state[i], "name")
             count  == RowGet(state[i], "count")
             retain == /\ ~Truthy(name) \/ CountFalsy(count)
                       /\ ~Truthy(RowGet(state0[i], "name"))
             known  == ~CountFalsy(count) /\ name \in Creatures
             b1 == IF retain
                   THEN Slice(bytes0, ArmyPosTypes(i), ArmyPosTypes(i) + 4)
                   ELSE IF known THEN itoby(IDS[name], 4) ELSE Times(Blank, 4)
             b2 == IF retain
                   THEN Slice(bytes0, ArmyPosCounts(i), ArmyPosCounts(i) + 4)
                   ELSE IF known THEN itoby(count, 4) ELSE Times(Blank, 4)
         IN  ArmySerializeBlankBoth(state, state0, bytes0, i + 1,
                 SetSlice(SetSlice(result, ArmyPosTypes(i), ArmyPosTypes(i) + 4, b1),
                          ArmyPosCounts(i), ArmyPosCounts(i) + 4, b2))

\* ArmyPlugin.serialize(), slot by slot.
RECURSIVE ArmySerializeFrom(_, _, _, _, _)
ArmySerializeFrom(state, state0, bytes0, i, result) ==
    IF i > ArmyMax THEN result
    ELSE LET name   == RowGet(state[i], "name")
             count  == RowGet(state[i], "count")
             retain == /\ ~Truthy(name) \/ CountFalsy(count)
                       /\ ~Truthy(RowGet(state0[i], "name"))
             known  == ~CountFalsy(count) /\ name \in Creatures
             b1 == IF retain
                   THEN Slice(bytes0, ArmyPosTypes(i), ArmyPosTypes(i) + 4)
                   ELSE IF known THEN itoby(IDS[name], 4) ELSE Times(Blank, 4)
             b2 == IF retain
                   THEN Slice(bytes0, ArmyPosCounts(i), ArmyPosCounts(i) + 4)
                   ELSE IF known THEN itoby(count, 4) ELSE Times(Null, 4)
         IN  ArmySerializeFrom(state, state0, bytes0, i + 1,
                 SetSlice(SetSlice(result, ArmyPosTypes(i), ArmyPosTypes(i) + 4, b1),
                          ArmyPosCounts(i), ArmyPosCounts(i) + 4, b2))

ArmySerialize(state, state0, bytes, bytes0) ==
    ArmySerializeFrom(state, state0, bytes0, 1, bytes)

\* The row load_state stores for an entry whose count must be below the
\* maximum.
ArmyLoadRowBelowMax(v) ==
    LET name  == RowGet(v, "name")
        count == RowGet(v, "count")
    IN  IF /\ Truthy(name)
           /\ InCmap(Creatures, Lower(name))
           /\ count # NoCount
           /\ Leq(CountMin, count) /\ Leq(count, CountMax) /\ count # CountMax
        THEN Row(Cmap(Creatures, Lower(name)), count)
        ELSE EmptyRow

\* The row ArmyPlugin.load_state stores for the entry v of the given list.
ArmyLoadRow(v) ==
    LET name  == RowGet(v, "name")
        count == RowGet(v, "count")
    IN  IF /\ Truthy(name)
           /\ InCmap(Creatures, Lower(name))
           /\ count # NoCount
           /\ Leq(CountMin, count) /\ Leq(count, CountMax)
        THEN Row(Cmap(Creatures, Lower(name)), count)
        ELSE EmptyRow

\* ArmyPlugin.load_state(state): [ret, state].
army_load_state(state0, given) ==
    LET padded == IF Len(given) >= ArmyMax THEN given
                  ELSE given \o [i \in 1..(ArmyMax - Len(given)) |-> EmptyRow]
        new    == [i \in 1..ArmyMax |-> ArmyLoadRow(padded[i])]
    IN  [ret |-> state0 # new, state |-> new]

\* on_change that stores the value and leaves the count as it is.
army_on_change_keep_count(row, prop, value) == (prop :> value) @@ row

\* ArmyPlugin.on_change(prop, row, ctrl, value) on the row of slot i.
army_on_change(row, prop, value) ==
    LET row1 == (prop :> value) @@ row
    IN  IF prop = "name" /\ Truthy(value) /\ CountFalsy(RowGet(row1, "count"))
        THEN ("count" :> Num(1)) @@ row1
        ELSE row1

ArmyLoaded == Len(army_state) = ArmyMax

\* ArmyPlugin.load(hero, panel)
ArmyLoad ==
    /\ army_state' = ArmyParse(hero_bytes)
    /\ army_state0' = army_state'
    /\ last' = Call("army_load", None, None, NoArg, TRUE, {})
    /\ Handled
    /\ UNCHANGED <<hero_bytes, hero_bytes0, hero_stats, hero_basestats, art_state,
                   inv_state, inv_state0>>

ArmyLoadState(given) ==
    /\ ArmyLoaded
    /\ \E r \in {army_load_state(army_state, given)} :
         /\ army_state' = r.state
         /\ last' = Call("army_load_state", None, None, given, r.ret, {})
    /\ Handled
    /\ UNCHANGED <<hero_bytes, hero_bytes0, hero_stats, hero_basestats, art_state,
                   army_state0, inv_state, inv_state0>>

ArmyOnChange(i, prop, value) ==
    /\ ArmyLoaded
    /\ army_state' = [army_state EXCEPT ![i] = army_on_change(@, prop, value)]
    /\ last' = Call("army_on_change", prop, value, [slot |-> i], TRUE, {})
    /\ Handled
    /\ UNCHANGED <<hero_bytes, hero_bytes0, hero_stats, hero_basestats, art_state,
                   army_state0, inv_state, inv_state0>>

ArmySerializeCall ==
    /\ ArmyLoaded
    /\ last' = Returned("army_serialize",
                        ArmySerialize(army_state, army_state0, hero_bytes, hero_bytes0))
    /\ Handled
    /\ UNCHANGED <<hero_bytes, hero_bytes0, hero_stats, hero_basestats, art_state,
                   army_state, army_state0, inv_state, inv_state0>>

ArtSerializeCall ==
    /\ ArtLoaded
    /\ last' = Returned("art_serialize", ArtSerialize(art_state, hero_bytes))
    /\ Handled
    /\ UNCHANGED <<hero_bytes, hero_bytes0, hero_stats, hero_basestats, art_state,
                   army_state, army_state0, inv_state, inv_state0>>

(***************************************************************************)
(* InventoryPlugin                                                         *)
(***************************************************************************)
InvPos(i) == POS("inventory") + (i - 1) * 8

\* x == metadata.Blank for a byte x of hero.bytes: an int against a bytes
\* object, which are never equal.
IntEqBytes(x, y) == FALSE

\* parse_item that takes the 4-byte id for every artifact.
InvParseItemNarrow(bytes, pos) ==
    LET b == Slice(bytes, pos, pos + 4)
    IN  IF \A i \in DOMAIN b : IntEqBytes(b[i], Blank) THEN NoItem
        ELSE bytoi(b)

\* parse_item(pos) of InventoryPlugin.parse
InvParseItem(bytes, pos) ==
    LET b == Slice(bytes, pos, pos + 4)
        v == bytoi(b)
    IN  IF \A i \in DOMAIN b : IntEqBytes(b[i], Blank) THEN NoItem
        ELSE IF v = IDS["Spell Scroll"] THEN bytoi(Slice(bytes, pos, pos + 8))
        ELSE v

\* InventoryPlugin.parse(hero)
InvParse(bytes) ==
    [i \in 1..InvMax |->
        NamesGet(Artifacts("inventory"), InvParseItem(bytes, InvPos(i)))]

\* IDS.get(name): None is kept as the empty tuple.
IdsGet(name) == IF name \in DOMAIN IDS THEN IDS[name] ELSE NoItem

\* serialize that retains the bytes of the current buffer for a slot that
\* was and is empty.
RECURSIVE InvSerializeKeepCurrent(_, _, _, _, _)
InvSerializeKeepCurrent(state, state0, bytes0, i, result) ==
    IF i > Len(state) THEN result
    ELSE LET name == state[i]
             v    == IdsGet(name)
             b    == IF name \in Artifacts("scroll") THEN itoby(v, 8)
                     ELSE IF v \notin {NoItem, Zero}
                     THEN itoby(v, 4) \o Times(Blank, 4)
                     ELSE IF ~Truthy(state0[i])
                     THEN Slice(result, InvPos(i), InvPos(i) + 8)
                     ELSE Times(Blank, 4) \o Times(Null, 4)
         IN  InvSerializeKeepCurrent(state, state0, bytes0, i + 1,
                 SetSlice(result, InvPos(i), InvPos(i) + Len(b), b))

\* InventoryPlugin.serialize(), slot by slot.
RECURSIVE InvSerializeFrom(_, _, _, _, _)
InvSerializeFrom(state, state0, bytes0, i, result) ==
    IF i > Len(state) THEN result
    ELSE LET name == state[i]
             v    == IdsGet(name)
             b    == IF name \in Artifacts("scroll") THEN itoby(v, 8)
                     ELSE IF v \notin {NoItem, Zero}
                     THEN itoby(v, 4) \o Times(Blank, 4)
                     ELSE IF ~Truthy(state0[i])
                     THEN Slice(bytes0, InvPos(i), InvPos(i) + 8)
                     ELSE Times(Blank, 4) \o Times(Null, 4)
         IN  InvSerializeFrom(state, state0, bytes0, i + 1,
                 SetSlice(result, InvPos(i), InvPos(i) + Len(b), b))

InvSerialize(state, state0, bytes, bytes0) ==
    InvSerializeFrom(state, state0, bytes0, 1, bytes)

\* InventoryPlugin.load_state(state): [ret, state, raised]. The list is
\* padded to the inventory's size and not cut: an entry past the end that is
\* a catalog name or empty is assigned to self._state[i] and raises
\* IndexError, after the slots before it were written; an unknown one is
\* only logged.
inv_load_state(state0, given) ==
    LET padded == IF Len(given) >= InvMax THEN given
                  ELSE given \o [i \in 1..(InvMax - Len(given)) |-> None]
        over   == \E i \in (InvMax + 1)..Len(given) :
                      \/ ~Truthy(given[i])
                      \/ InCmap(Artifacts("inventory"), Lower(given[i]))
        new    == [i \in 1..InvMax |->
                      LET v == padded[i]
                      IN  IF Truthy(v) /\ InCmap(Artifacts("inventory"), Lower(v))
                          THEN Cmap(Artifacts("inventory"), Lower(v))
                          ELSE IF ~Truthy(v) THEN None
                          ELSE state0[i]]
    IN  [ret |-> ~over /\ state0 # new, state |-> new,
         raised |-> IF over THEN "IndexError" ELSE None]

InvLoaded == Len(inv_state) = InvMax

\* InventoryPlugin.load(hero, panel)
InvLoad ==
    /\ inv_state' = InvParse(hero_bytes)
    /\ inv_state0' = inv_state'
    /\ last' = Call("inv_load", None, None, NoArg, TRUE, {})
    /\ Handled
    /\ UNCHANGED <<hero_bytes, hero_bytes0, hero_stats, hero_basestats, art_state,
                   army_state, army_state0>>

InvLoadState(given) ==
    /\ InvLoaded
    /\ \E r \in {inv_load_state(inv_state, given)} :
         /\ inv_state' = r.state
         /\ last' = [Call("inv_load_state", None, None, given, r.ret, {})
                       EXCEPT !.raised = r.raised]
    /\ Handled
    /\ UNCHANGED <<hero_bytes, hero_bytes0, hero_stats, hero_basestats, art_state,
                   army_state, army_state0, inv_state0>>

InvSerializeCall ==
    /\ InvLoaded
    /\ last' = Returned("inv_serialize",
                        InvSerialize(inv_state, inv_state0, hero_bytes, hero_bytes0))
    /\ Handled
    /\ UNCHANGED <<hero_bytes, hero_bytes0, hero_stats, hero_basestats, art_state,
                   army_state, army_state0, inv_state, inv_state0>>

(***************************************************************************)
(* Bulk load of worn artifacts                                             *)
(***************************************************************************)
\* The mappings given to ArtifactsPlugin.load_state: none of the slots; a
\* helmet with a collar that reserves the helm; a helmet, a pendant that
\* reserves a side slot and a full side row; a conflict-free mapping of all 14
\* slots; names in another case, an unknown name, an empty string and an
\* unknown key; two combination artifacts that claim each other's slot; all
\* 14 slots empty; more combination artifacts than the side row holds; an
\* artifact of another category.
LoadStates ==
    { NoArg,
      [n \in {"helm", "neck"} |-> IF n = "helm" THEN "Helmet" ELSE "Collar"],
      [n \in {"helm", "neck"} \cup {m \in SlotNames : PropSlot(m) = "side"} |->
          IF n = "helm" THEN "Helmet" ELSE IF n = "neck" THEN "Pendant" ELSE "Charm"],
      [Bare EXCEPT !["helm"] = "Helmet", !["neck"] = "Pendant", !["side1"] = "Charm",
                   !["side2"] = "Charm", !["side3"] = "Twin"],
      [n \in {"helm", "neck", "side5", "ring"} |->
          IF n = "helm" THEN "helmet" ELSE IF n = "neck" THEN "Bogus"
          ELSE IF n = "side5" THEN "" ELSE "Charm"],
      [n \in {"helm", "neck"} |-> IF n = "helm" THEN "Crown" ELSE "Collar"],
      Bare,
      [n \in {"side1", "side2", "side3"} |-> "Twin"],
      [n \in {"side1", "neck"} |-> IF n = "side1" THEN "Helmet" ELSE "Pendant"] }

NextBulk ==
    \/ ArtLoad
    \/ \E given \in LoadStates : ArtLoadState(given)

SpecBulk == Init /\ [][NextBulk]_vars

(***************************************************************************)
(* The three codecs                                                        *)
(***************************************************************************)
\* Raw army slots: a creature with a count; the two empty encodings; an id
\* that is no creature; a creature with the largest count; a creature with
\* count zero; a zero id with a count.
RawArmy ==
    << [type |-> itoby(IDS["Archer"], 4),  count |-> itoby(Num(5), 4)],
       [type |-> Times(Null, 4),           count |-> Times(Null, 4)],
       [type |-> Times(Blank, 4),          count |-> Times(Blank, 4)],
       [type |-> itoby(Num(9), 4),         count |-> itoby(Num(4), 4)],
       [type |-> itoby(IDS["Pikeman"], 4), count |-> itoby(CountMax, 4)],
       [type |-> itoby(IDS["Archer"], 4),  count |-> Times(Null, 4)],
       [type |-> Times(Null, 4),           count |-> itoby(Num(3), 4)] >>

\* The army sections of a hero whose slots are `raw`, then blank slots.
ArmyTypes(raw) ==
    [i \in 1..ArmyMax |-> IF i <= Len(raw) THEN raw[i].type ELSE Times(Blank, 4)]
ArmyCounts(raw) ==
    [i \in 1..ArmyMax |-> IF i <= Len(raw) THEN raw[i].count ELSE Times(Blank, 4)]

\* The inventory section of a hero whose slots are `raw`, then blank slots.
InvOf(raw) ==
    [i \in 1..InvMax |-> IF i <= Len(raw) THEN raw[i] ELSE Times(Blank, 8)]

\* The reserved counters that agree with a worn configuration.
ReservedOf(cfg) ==
    [i \in 1..Len(ReservedOrder) |->
        Cardinality(UNION {{<<n, j>> : j \in {k \in DOMAIN SlotsGet(cfg[n]) :
                                                  k > 1 /\ SlotsGet(cfg[n])[k] = ReservedOrder[i]}} :
                           n \in {m \in SlotNames : cfg[m] # None}})]

\* A worn section as the game does not write it: an all-zero slot, a blank
\* id with zero bytes after it, an id that is no artifact, a Spell Scroll
\* with no spell and one with a spell, an artifact followed by zero bytes.
OddWorn ==
    [n \in SlotNames |->
        CASE n = "helm"  -> Times(Null, 8)
          [] n = "neck"  -> Times(Blank, 4) \o Times(Null, 4)
          [] n = "armor" -> itoby(Num(9), 4) \o Times(Blank, 4)
          [] n = "side1" -> itoby(IDS["Spell Scroll"], 8)
          [] n = "side2" -> itoby(IDS["Charm"], 4) \o Times(Null, 4)
          [] n = "side3" -> itoby(IDS["Spell Scroll"], 4) \o itoby(Num(7), 4)
          [] OTHER -> Times(Blank, 8)]

\* The heroes of the codec runs: one written as the game writes it, one with
\* the other encodings, one with an all-zero army and nothing else.
CodecHeroes ==
    { [army |-> RawArmy,
       worn |-> WornOf([Bare EXCEPT !["helm"] = "Crown", !["side1"] = "Charm"]),
       reserved |-> ReservedOf([Bare EXCEPT !["helm"] = "Crown", !["side1"] = "Charm"]),
       inv  |-> <<EncArt("Helmet"), itoby(IDS["Spell Scroll"], 8),
                  itoby(IDS["Spell Scroll"], 4) \o itoby(Num(7), 4)>>],
      [army |-> <<>>,
       worn |-> OddWorn,
       reserved |-> [i \in 1..Len(ReservedOrder) |-> IF i = 1 THEN 3 ELSE 0],
       inv  |-> <<itoby(IDS["Helmet"], 4) \o Times(Null, 4), Times(Null, 8)>>],
      [army |-> [i \in 1..ArmyMax |-> [type |-> Times(Null, 4), count |-> Times(Null, 4)]],
       worn |-> WornOf(Bare),
       reserved |-> NoReserved,
       inv  |-> <<>>] }

InitCodec ==
    /\ \E h \in CodecHeroes :
          hero_bytes = HeroBytes(ArmyTypes(h.army), ArmyCounts(h.army), h.worn,
                                 h.reserved, InvOf(h.inv))
    /\ hero_bytes0 = hero_bytes
    /\ hero_stats = <<0, 1>>
    /\ hero_basestats = <<0, 1>>
    /\ art_state = NoArg
    /\ army_state = <<>>
    /\ army_state0 = <<>>
    /\ inv_state = <<>>
    /\ inv_state0 = <<>>
    /\ last = Call("init", None, None, NoArg, TRUE, {})
    /\ dialogs = NoDialogs

\* The lists given to ArmyPlugin.load_state.
ArmyStates ==
    { <<>>,
      << Row("archer", CountMax), Row("Pikeman", Num(1)), Row("Archer", Zero),
         Row("Bogus", Num(5)), Row("Archer", <<0, 0, 1, 0>>), EmptyRow,
         [name |-> "Archer"] >> }

\* The lists given to InventoryPlugin.load_state.
InvStates ==
    { <<>>, <<"helmet", "Spell Scroll", "Bogus">>, <<"", "Charm">> }

\* The mappings given to ArtifactsPlugin.load_state in the codec runs.
CodecLoadStates ==
    { [n \in {"helm", "side2"} |-> IF n = "helm" THEN "helmet" ELSE "Twin"] }

\* The army slots edited through the form.
ArmyEdited == 1

NextCodec ==
    \/ ArmyLoad
    \/ ArtLoad
    \/ InvLoad
    \/ \E given \in ArmyStates : ArmyLoadState(given)
    \/ \E given \in InvStates : InvLoadState(given)
    \/ \E given \in CodecLoadStates : ArtLoadState(given)
    \/ \E i \in 1..ArmyEdited : \E name \in {"", "Pikeman"} : ArmyOnChange(i, "name", name)
    \/ \E i \in 1..ArmyEdited : ArmyOnChange(i, "count", Num(7))
    \/ ArmySerializeCall
    \/ ArtSerializeCall
    \/ InvSerializeCall

SpecCodec == InitCodec /\ [][NextCodec]_vars

(***************************************************************************)
(* Claims: bulk load                                                       *)
(***************************************************************************)
\* The configuration after the first pass, stated directly: a named slot
\* takes the given value when it is empty or case-insensitively a name of the
\* slot's category.
Donned(state, given) ==
    [n \in SlotNames |->
        IF /\ n \in DOMAIN given
           /\ \/ ~Truthy(given[n])
              \/ InCmap(Artifacts(PropSlot(n)), Lower(given[n]))
        THEN given[n]
        ELSE state[n]]

\* helm is given a single-slot helm artifact, neck a combination artifact
\* [neck, c], and the other slots consume all capacity of c.
CombinationOverFull(state, given) ==
    /\ {"helm", "neck"} \subseteq DOMAIN given
    /\ SlotsGet(given["helm"]) = <<"helm">>
    /\ Len(SlotsGet(given["neck"])) = 2
    /\ SlotsGet(given["neck"])[1] = "neck"
    /\ Consumed(Donned(state, given), "neck", SlotsGet(given["neck"])[2])
          >= Capacity(SlotsGet(given["neck"])[2])

\* C5: a bulk load whose mapping gives helm a single-slot helm artifact A
\* and neck a combination artifact [neck, c], the other slots consuming all
\* capacity of c, ends with neck empty and helm holding A.
C5_BulkClearsCombination ==
    [][ (last'.op = "load_state" /\ CombinationOverFull(art_state, last'.arg)) =>
          /\ art_state'["neck"] = None
          /\ art_state'["helm"] = last'.arg["helm"]
      ]_vars

\* C10: after a bulk load, and after an equip applied to a configuration
\* with no over-subscribed category, no category is over-subscribed.
C10_NoOversubscription ==
    [][ /\ last'.op = "load_state" => NoOversubscription(art_state')
        /\ (last'.op = "on_change" /\ NoOversubscription(art_state)) =>
              NoOversubscription(art_state')
      ]_vars

(***************************************************************************)
(* Claims: codecs                                                          *)
(***************************************************************************)
\* A valid logical state: every name is in the catalog, every count in range.
ValidArmy(state) ==
    \A i \in DOMAIN state :
        \/ state[i] = EmptyRow
        \/ /\ DOMAIN state[i] = {"name", "count"}
           /\ state[i].name \in Creatures
           /\ Leq(CountMin, state[i].count) /\ Leq(state[i].count, CountMax)

ValidWorn(state) ==
    \A n \in DOMAIN state : state[n] = None \/ state[n] \in Artifacts("inventory")

ValidInv(state) ==
    \A i \in DOMAIN state : state[i] = None \/ state[i] \in Artifacts("inventory")

\* C6: parse of the buffer that serialize returns for a valid logical state
\* is that state, for the army, the worn artifacts and the inventory.
C6_RoundTrip ==
    /\ (last.op = "army_serialize" /\ ValidArmy(army_state)) =>
          ArmyParse(last.out) = army_state
    /\ (last.op = "art_serialize" /\ ValidWorn(art_state)) =>
          ArtParse(last.out) = art_state
    /\ (last.op = "inv_serialize" /\ ValidInv(inv_state)) =>
          InvParse(last.out) = inv_state

\* C7: serialize right after load returns the hero's buffer byte for byte,
\* for the army, the worn artifacts and the inventory.
C7_UntouchedIdempotent ==
    [][ /\ (last.op = "army_load" /\ last'.op = "army_serialize") =>
              last'.out = hero_bytes
        /\ (last.op = "load" /\ last'.op = "art_serialize") =>
              last'.out = hero_bytes
        /\ (last.op = "inv_load" /\ last'.op = "inv_serialize") =>
              last'.out = hero_bytes
      ]_vars

\* C8: load_state accepts a catalog creature with count 2^32-1; serialize
\* writes the creature's id and four 0xFF count bytes; parse of the result
\* returns the creature with count 2^32-1.
C8_LargestCount ==
    [][ /\ last'.op = "army_load_state" =>
              \A i \in DOMAIN last'.arg :
                  LET v == last'.arg[i]
                  IN  (/\ i <= ArmyMax
                       /\ DOMAIN v = {"name", "count"}
                       /\ v.count = <<65535, 65535, 0, 0>>
                       /\ InCmap(Creatures, Lower(v.name))) =>
                          army_state'[i] = Row(Cmap(Creatures, Lower(v.name)),
                                               <<65535, 65535, 0, 0>>)
        /\ last'.op = "army_serialize" =>
              \A i \in 1..ArmyMax :
                  LET row == army_state'[i]
                  IN  (/\ DOMAIN row = {"name", "count"}
                       /\ row.name \in Creatures
                       /\ row.count = <<65535, 65535, 0, 0>>) =>
                          /\ Slice(last'.out, ArmyPosCounts(i), ArmyPosCounts(i) + 4)
                                = <<255, 255, 255, 255>>
                          /\ bytoi(Slice(last'.out, ArmyPosTypes(i), ArmyPosTypes(i) + 4))
                                = IDS[row.name]
                          /\ Len(last'.out) = Len(hero_bytes)
                          /\ ArmyParse(last'.out)[i] = row
      ]_vars

\* A creature bulk-loaded with count 2^32-1 has been serialized.
C8_Witness ==
    /\ last.op = "army_serialize"
    /\ army_state[1] = Row("Archer", <<65535, 65535, 0, 0>>)
    /\ army_state0[1] # army_state[1]
    /\ ArmyParse(last.out)[1] = Row("Archer", <<65535, 65535, 0, 0>>)

\* C9: the inventory parse takes the 8-byte value exactly when the 4-byte id
\* is the Spell Scroll id; serialize writes the 8-byte catalog value exactly
\* for a scroll-category name, and the 4-byte id with 4 blank bytes for every
\* other artifact.
C9_WidePathForScrollOnly ==
    /\ last.op = "inv_load" =>
          \A i \in 1..InvMax :
              LET id4 == bytoi(Slice(hero_bytes, InvPos(i), InvPos(i) + 4))
                  id8 == bytoi(Slice(hero_bytes, InvPos(i), InvPos(i) + 8))
              IN  inv_state[i] = NamesGet(Artifacts("inventory"),
                                          IF id4 = IDS["Spell Scroll"] THEN id8 ELSE id4)
    /\ last.op = "inv_serialize" =>
          \A i \in 1..InvMax :
              LET name == inv_state[i]
                  w    == Slice(last.out, InvPos(i), InvPos(i) + 8)
              IN  /\ name \in Artifacts("scroll") => w = itoby(IDS[name], 8)
                  /\ name \in Artifacts("inventory") \ Artifacts("scroll") =>
                        w = itoby(IDS[name], 4) \o <<255, 255, 255, 255>>
                  /\ name \notin Artifacts("scroll") =>
                        \A sc \in Artifacts("scroll") : w # itoby(IDS[sc], 8)

\* An inventory with a scroll, another artifact, and a slot whose 4-byte id
\* is the scroll id but whose 8-byte value is no artifact, serialized.
C9_Witness ==
    /\ last.op = "inv_serialize"
    /\ inv_state[1] = "Helmet"
    /\ inv_state[2] = "Spell Scroll"
    /\ inv_state[3] = None
    /\ bytoi(Slice(hero_bytes, InvPos(3), InvPos(3) + 4)) = IDS["Spell Scroll"]

(***************************************************************************)
(* The byte region: the hero record keeps the buffer a serialize returned  *)
(***************************************************************************)
SerializeOps == {"army_serialize", "art_serialize", "inv_serialize"}

\* The hero record takes the buffer the last serialize returned as its
\* current buffer; the original buffer stays as captured.
HeroPatch ==
    /\ last.op \in SerializeOps
    /\ last.out # hero_bytes
    /\ hero_bytes' = last.out
    /\ last' = Call("patch", last.op, None, NoArg, TRUE, {})
    /\ Handled
    /\ UNCHANGED <<hero_bytes0, hero_stats, hero_basestats, art_state,
                   army_state, army_state0, inv_state, inv_state0>>

\* The list given to ArmyPlugin.load_state in the byte-region runs: a
\* creature in the second and the third slot, every other slot empty.
RegionArmyStates ==
    { <<EmptyRow, Row("Archer", Num(3)), Row("pikeman", CountMax)>> }

\* The three plugins on one hero record: each is loaded, bulk-loaded and
\* serialized, and the record stores the serialized buffers.
NextRegion ==
    \/ ArmyLoad
    \/ ArtLoad
    \/ InvLoad
    \/ \E given \in RegionArmyStates : ArmyLoadState(given)
    \/ \E given \in CodecLoadStates : ArtLoadState(given)
    \/ \E given \in {<<"", "Charm">>} : InvLoadState(given)
    \/ ArmySerializeCall
    \/ ArtSerializeCall
    \/ InvSerializeCall
    \/ HeroPatch

SpecRegion == InitCodec /\ [][NextRegion]_vars

\* The army plugin alone, edited through the form and by bulk load, its
\* serialized buffers stored by the hero record.
NextArmy ==
    \/ ArmyLoad
    \/ \E given \in RegionArmyStates \cup {<<>>} : ArmyLoadState(given)
    \/ \E i \in 1..ArmyEdited : \E name \in {"", "Pikeman"} : ArmyOnChange(i, "name", name)
    \/ ArmySerializeCall
    \/ HeroPatch

SpecArmy == InitCodec /\ [][NextArmy]_vars

(***************************************************************************)
(* Claims: byte region and army                                            *)
(***************************************************************************)
\* C11: the current and the original buffer have the same length in every
\* state; a serialize returns a buffer as long as the hero's current buffer;
\* no load, edit, bulk load, serialize or store of a serialized buffer
\* changes the original buffer.
C11_ByteRegion ==
    /\ [](Len(hero_bytes) = Len(hero_bytes0))
    /\ [][ /\ hero_bytes0' = hero_bytes0
           /\ last'.op \in SerializeOps =>
                 /\ Len(last'.out) = Len(hero_bytes)
                 /\ hero_bytes' = hero_bytes
         ]_vars

\* The current buffer has been replaced by the serialized buffer of an
\* edited army, after those of the worn artifacts and of an edited inventory:
\* it differs from the original buffer in all three sections.
C11_Witness ==
    /\ last.op = "patch"
    /\ last.name = "army_serialize"
    /\ army_state # army_state0
    /\ inv_state # inv_state0
    /\ Len(hero_bytes) = Len(hero_bytes0)
    /\ Slice(hero_bytes, POS("army_types"), POS("helm"))
          # Slice(hero_bytes0, POS("army_types"), POS("helm"))
    /\ Slice(hero_bytes, POS("helm"), POS("inventory"))
          # Slice(hero_bytes0, POS("helm"), POS("inventory"))
    /\ Slice(hero_bytes, POS("inventory"), Len(hero_bytes))
          # Slice(hero_bytes0, POS("inventory"), Len(hero_bytes0))

\* The count of a row is in 1..2^32-1.
CountInRange(row) ==
    /\ RowGet(row, "count") # NoCount
    /\ Leq(CountMin, RowGet(row, "count"))
    /\ Leq(RowGet(row, "count"), CountMax)

\* C12: once loaded the army has 7 slots, and every slot with a creature
\* present has a count in 1..2^32-1: a slot decoded or bulk-loaded with a
\* creature and a count outside the range is empty, and selecting a creature
\* for a slot that has no count sets the count to 1.
C12_ArmyCountInRange ==
    /\ [](ArmyLoaded =>
            \A i \in 1..ArmyMax :
                Truthy(RowGet(army_state[i], "name")) => CountInRange(army_state[i]))
    /\ [][ /\ last'.op = "army_load" =>
                 \A i \in 1..ArmyMax :
                     bytoi(Slice(hero_bytes, ArmyPosCounts(i), ArmyPosCounts(i) + 4)) = Zero
                        => army_state'[i] = EmptyRow
           /\ last'.op = "army_load_state" =>
                 \A i \in DOMAIN last'.arg :
                     (i <= ArmyMax /\ ~CountInRange(last'.arg[i]))
                        => army_state'[i] = EmptyRow
           /\ (/\ last'.op = "army_on_change"
               /\ last'.name = "name"
               /\ Truthy(last'.value)
               /\ CountFalsy(RowGet(army_state[last'.arg.slot], "count"))) =>
                 army_state'[last'.arg.slot] = Row(last'.value, Num(1))
         ]_vars

\* A creature has been selected for a slot that had no count, on a hero
\* decoded with a creature of the largest count in one slot and a creature
\* with count zero, decoded as empty, in another.
C12_Witness ==
    /\ last.op = "army_on_change"
    /\ last.name = "name"
    /\ army_state[last.arg.slot] = Row("Pikeman", Num(1))
    /\ army_state0[5] = Row("Pikeman", CountMax)
    /\ army_state0[6] = EmptyRow
    /\ bytoi(Slice(hero_bytes, ArmyPosTypes(6), ArmyPosTypes(6) + 4)) = IDS["Archer"]

(***************************************************************************)
(* Claims: slot state, derived attributes, bulk load passes                *)
(***************************************************************************)
\* C13: for every slot excluded (or none) and every hypothetical artifact (or
\* none), _slots returns for every category its number of slot names, less
\* the occurrences of the category in the occupied categories of the
\* artifacts donned outside the excluded slot, less 1 for the excluded slot's
\* own category, less the occurrences in the hypothetical artifact's
\* categories after the first; the owners are the artifacts donned outside
\* the excluded slot that occupy the category.
C13_SlotState ==
    ArtLoaded =>
        \A prop \in SlotNames \cup {None} :
            \A value \in WornArtifacts \cup SCROLL_ARTIFACTS \cup {None} :
                LET slots == _slots(art_state, prop, value)
                IN  \A c \in Categories :
                        /\ slots.free[c] = FreeCount(art_state, prop, value, c)
                        /\ Range(slots.owner[c]) = Owners(art_state, prop, c)

\* A bulk load has donned two combination artifacts that both occupy side,
\* one of them in a slot of another category, and no side slot is left free.
C13_Witness ==
    /\ last.op = "load_state"
    /\ art_state["neck"] = "Pendant"
    /\ art_state["side3"] = "Twin"
    /\ _slots(art_state, None, None).free["side"] = 0
    /\ _slots(art_state, "side3", "Twin").free["side"] = 0
    /\ Range(_slots(art_state, "side3", "Twin").owner["side"]) = {"Pendant", "Charm"}

\* The catalog's spelling of a name that matches it case-insensitively.
Resolve(names, v) == IF InCmap(names, Lower(v)) THEN Cmap(names, Lower(v)) ELSE v

\* The delta of attribute k of the item v: STATS[v][k] for a name of STATS.
Delta(v, k) == IF v \in DOMAIN ARTIFACT_STATS THEN ARTIFACT_STATS[v][k] ELSE 0

\* The sum of attribute k's deltas over the artifacts donned in the slots
\* from the i-th on.
RECURSIVE DeltaSum(_, _, _)
DeltaSum(state, k, i) ==
    IF i > Len(UIPROPS) THEN 0
    ELSE Delta(state[UIPROPS[i]], k) + DeltaSum(state, k, i + 1)

Clamp(v) == IF v < 0 THEN 0 ELSE IF v > 127 THEN 127 ELSE v

\* C14: after an accepted equip, and after a bulk load that changed the worn
\* state, each derived attribute of a hero with stats is its base value plus
\* the sum of its deltas over the donned artifacts, clamped into 0..127, and
\* 'changed' is reported exactly when a derived attribute differs from its
\* value before. A donned artifact is the catalog artifact that the bulk
\* load matched the stored name with, whatever the case of the name.
C14_DerivedAttributes ==
    [][ (/\ last'.op \in {"on_change", "load_state"}
         /\ last'.ret
         /\ hero_stats # <<>> /\ hero_basestats # <<>>) =>
          /\ \A k \in DOMAIN PrimaryAttributes :
                hero_stats'[k] =
                    Clamp(hero_basestats[k]
                          + DeltaSum([n \in SlotNames |->
                                         Resolve(WornArtifacts, art_state'[n])], k, 1))
          /\ last'.changed <=> (hero_stats' # hero_stats)
      ]_vars

\* Every value of a mapping is empty or, case-insensitively, an artifact of
\* its slot's category.
NameValid(given) ==
    \A n \in DOMAIN given :
        \/ ~Truthy(given[n])
        \/ n \in SlotNames /\ InCmap(Artifacts(PropSlot(n)), Lower(given[n]))

\* A mapping with every name in the catalog's spelling.
Resolved(given) ==
    [n \in DOMAIN given |->
        IF Truthy(given[n]) THEN Resolve(WornArtifacts, given[n]) ELSE given[n]]

\* C15: a bulk load of a mapping that names all 14 slots, with every artifact
\* valid for its slot's category and no category over-subscribed, ends with
\* exactly that mapping as the worn state, whatever the state before.
C15_ConsistentMappingRestored ==
    [][ (/\ last'.op = "load_state"
         /\ DOMAIN last'.arg = SlotNames
         /\ NameValid(last'.arg)
         /\ NoOversubscription(Resolved(last'.arg))) =>
          /\ art_state' = last'.arg
          /\ last'.report = {}
      ]_vars

\* A conflict-free mapping with two combination artifacts has been restored
\* over a state decoded with helmets in two side slots.
C15_Witness ==
    /\ last.op = "load_state"
    /\ last.ret
    /\ DOMAIN last.arg = SlotNames
    /\ art_state = last.arg
    /\ art_state["neck"] = "Pendant"
    /\ art_state["side3"] = "Twin"
    /\ ArtParse(hero_bytes)["side4"] = "Helmet"

\* Validating the artifact of slot n against a configuration reports a
\* conflict: some category has a negative free count with n excluded and the
\* artifact hypothetical.
Conflicts(conf, n) ==
    \E c \in Categories : FreeCount(conf, n, conf[n], c) < 0

\* The configuration the second pass has reached when it comes to slot n: the
\* slots before n as the bulk load leaves them, the others as the first pass
\* left them.
ConfAt(donned, final, n) ==
    [m \in SlotNames |->
        IF IndexOf(UIPROPS, m) < IndexOf(UIPROPS, n) THEN final[m] ELSE donned[m]]

\* C16 as stated: a non-empty slot is cleared exactly when validating its
\* artifact against the configuration left by the first pass reports a
\* conflict.
C16_Original ==
    [][ last'.op = "load_state" =>
          LET donned == Donned(art_state, last'.arg)
          IN  \A n \in SlotNames :
                  Truthy(donned[n]) =>
                      /\ (art_state'[n] = None) <=> Conflicts(donned, n)
                      /\ art_state'[n] # None => art_state'[n] = donned[n]
      ]_vars

\* C16 amended: the second pass takes the slots in order, and a non-empty
\* slot is cleared exactly when validating its artifact reports a conflict
\* against the configuration as it is when the pass comes to it, the slots
\* cleared before it being empty; every other slot keeps the value the first
\* pass left, and the bulk load is applied whatever the conflicts.
C16_SecondPassInOrder ==
    [][ last'.op = "load_state" =>
          LET donned == Donned(art_state, last'.arg)
          IN  \A n \in SlotNames :
                  /\ Truthy(donned[n]) =>
                        /\ (art_state'[n] = None)
                              <=> Conflicts(ConfAt(donned, art_state', n), n)
                        /\ art_state'[n] # None => art_state'[n] = donned[n]
                  /\ ~Truthy(donned[n]) => art_state'[n] = donned[n]
      ]_vars

\* Two combination artifacts that claim each other's slot were given: the
\* first was cleared and the second, in conflict with the first, was kept.
C16_Witness ==
    /\ last.op = "load_state"
    /\ {"helm", "neck"} \subseteq DOMAIN last.arg
    /\ last.arg["helm"] = "Crown"
    /\ last.arg["neck"] = "Collar"
    /\ art_state["helm"] = None
    /\ art_state["neck"] = "Collar"

(***************************************************************************)
(* Claims: army and worn-artifact codecs                                   *)
(***************************************************************************)
\* The 4 type bytes and the 4 count bytes of army slot i in a buffer.
TypeBytes(buf, i)  == Slice(buf, ArmyPosTypes(i), ArmyPosTypes(i) + 4)
CountBytes(buf, i) == Slice(buf, ArmyPosCounts(i), ArmyPosCounts(i) + 4)

\* The catalog creatures whose 4-byte id is the bytes b.
CreaturesOf(b) == {cr \in Creatures : itoby(IDS[cr], 4) = b}

\* C17: the army decodes to exactly 7 slots; slot i is empty when its type
\* bytes are zero, or its count bytes are zero, or the type is no creature id
\* of the catalog, and is that creature with that count otherwise.
C17_ArmyDecode ==
    last.op = "army_load" =>
        /\ Len(army_state) = 7
        /\ \A i \in 1..7 :
              LET t == TypeBytes(hero_bytes, i)
                  c == CountBytes(hero_bytes, i)
              IN  IF t = <<0, 0, 0, 0>> \/ c = <<0, 0, 0, 0>> \/ CreaturesOf(t) = {}
                  THEN army_state[i] = EmptyRow
                  ELSE /\ DOMAIN army_state[i] = {"name", "count"}
                       /\ CreaturesOf(t) = {army_state[i].name}
                       /\ itoby(army_state[i].count, 4) = c

\* A hero decoded with a creature, both empty encodings, an id that is no
\* creature, a creature with count zero and a zero id with a count.
C17_Witness ==
    /\ last.op = "army_load"
    /\ army_state[1] = Row("Archer", Num(5))
    /\ army_state[5] = Row("Pikeman", <<65535, 65535, 0, 0>>)
    /\ \A i \in {2, 3, 4, 6, 7} : army_state[i] = EmptyRow
    /\ CountBytes(hero_bytes, 4) # <<0, 0, 0, 0>>
    /\ CreaturesOf(TypeBytes(hero_bytes, 6)) = {"Archer"}
    /\ CountBytes(hero_bytes, 7) = <<3, 0, 0, 0>>

\* A row is logically empty: no creature, or no count.
LogicallyEmpty(row) ==
    ~Truthy(RowGet(row, "name")) \/ CountFalsy(RowGet(row, "count"))

\* C18: for every army slot that was empty at load time and is logically
\* empty when serialize runs, whatever the edits in between, serialize writes
\* the 4 type bytes and the 4 count bytes of the original buffer.
C18_ArmyRetainsOriginal ==
    last.op = "army_serialize" =>
        \A i \in 1..ArmyMax :
            (~Truthy(RowGet(army_state0[i], "name")) /\ LogicallyEmpty(army_state[i])) =>
                /\ TypeBytes(last.out, i) = TypeBytes(hero_bytes0, i)
                /\ CountBytes(last.out, i) = CountBytes(hero_bytes0, i)

\* A slot empty at load time in the 0x00 encoding got a creature, the buffer
\* with the creature was stored, the creature was cleared again, and
\* serialize wrote the original zero bytes over the creature.
C18_Witness ==
    /\ last.op = "army_serialize"
    /\ army_state0[1] = EmptyRow
    /\ army_state[1] = [name |-> "", count |-> Num(1)]
    /\ TypeBytes(hero_bytes0, 1) = <<0, 0, 0, 0>>
    /\ TypeBytes(hero_bytes, 1) = itoby(IDS["Pikeman"], 4)
    /\ TypeBytes(last.out, 1) = <<0, 0, 0, 0>>
    /\ CountBytes(last.out, 1) = <<0, 0, 0, 0>>

\* C19: serialize of an army slot that is not retained from the original
\* buffer (it held a creature at load time, or is not logically empty)
\* writes the catalog id and the count when the creature is in the catalog
\* and the count is not zero, and 4 blank bytes as type with 4 zero bytes as
\* count otherwise.
C19_ArmyEncode ==
    last.op = "army_serialize" =>
        \A i \in 1..ArmyMax :
            (Truthy(RowGet(army_state0[i], "name")) \/ ~LogicallyEmpty(army_state[i])) =>
                IF /\ RowGet(army_state[i], "name") \in Creatures
                   /\ ~CountFalsy(RowGet(army_state[i], "count"))
                THEN /\ TypeBytes(last.out, i) = itoby(IDS[army_state[i].name], 4)
                     /\ CountBytes(last.out, i) = itoby(army_state[i].count, 4)
                ELSE /\ TypeBytes(last.out, i) = <<255, 255, 255, 255>>
                     /\ CountBytes(last.out, i) = <<0, 0, 0, 0>>

\* A slot that held a creature at load time was emptied by a bulk load that
\* put creatures in two slots empty at load time, and serialize has run.
C19_Witness ==
    /\ last.op = "army_serialize"
    /\ army_state0[1] = Row("Archer", Num(5))
    /\ army_state[1] = EmptyRow
    /\ army_state0[2] = EmptyRow
    /\ army_state[2] = Row("Archer", Num(3))
    /\ TypeBytes(last.out, 1) = <<255, 255, 255, 255>>
    /\ CountBytes(last.out, 1) = <<0, 0, 0, 0>>
    /\ TypeBytes(last.out, 2) = <<2, 0, 0, 0>>
    /\ CountBytes(last.out, 2) = <<3, 0, 0, 0>>

\* The catalog artifacts whose id, written in 8 bytes, is the bytes b.
ArtifactsOf(b) == {a \in Artifacts("inventory") : itoby(IDS[a], 8) = b}

\* C20: each of the 14 worn slots decodes to empty when the 4 bytes at its
\* position are all blank; otherwise its identity is the 8-byte value when
\* the 4 bytes are the Spell Scroll id and the 4-byte id otherwise, and the
\* slot decodes to the catalog name of that identity, or to empty when the
\* catalog has none.
C20_WornDecode ==
    last.op = "load" =>
        /\ DOMAIN art_state = SlotNames
        /\ Cardinality(SlotNames) = 14
        /\ \A n \in SlotNames :
              LET b4 == Slice(hero_bytes, POS(n), POS(n) + 4)
                  b8 == Slice(hero_bytes, POS(n), POS(n) + 8)
                  id == IF b4 = itoby(IDS["Spell Scroll"], 4)
                        THEN b8
                        ELSE b4 \o <<0, 0, 0, 0>>
              IN  IF b4 = <<255, 255, 255, 255>> \/ ArtifactsOf(id) = {}
                  THEN art_state[n] = None
                  ELSE ArtifactsOf(id) = {art_state[n]}

\* A hero decoded with an all-zero slot, an id that is no artifact, a Spell
\* Scroll with no spell, a Spell Scroll id followed by a spell, and an
\* artifact followed by zero bytes.
C20_Witness ==
    /\ last.op = "load"
    /\ Slice(hero_bytes, POS("helm"), POS("helm") + 8) = <<0, 0, 0, 0, 0, 0, 0, 0>>
    /\ art_state["helm"] = None
    /\ art_state["armor"] = None
    /\ Slice(hero_bytes, POS("armor"), POS("armor") + 4) = <<9, 0, 0, 0>>
    /\ art_state["side1"] = "Spell Scroll"
    /\ art_state["side2"] = "Charm"
    /\ art_state["side3"] = None
    /\ Slice(hero_bytes, POS("side3"), POS("side3") + 4) = itoby(IDS["Spell Scroll"], 4)

(***************************************************************************)
(* Claims: worn-artifact and inventory encode                              *)
(***************************************************************************)
\* Occurrences of category c beyond the first entry in the occupied-category
\* lists of the artifacts donned in state.
ReservedCount(state, c) ==
    Cardinality({<<n, j>> \in SlotNames \X (2..3) :
                    /\ state[n] \in DOMAIN ARTIFACT_SLOTS
                    /\ j <= Len(ARTIFACT_SLOTS[state[n]])
                    /\ ARTIFACT_SLOTS[state[n]][j] = c})

\* C21: in the buffer that the worn-artifact serialize returns, the counter
\* byte of every category is the number of occurrences of the category
\* beyond the first entry in the occupied-category lists of the donned
\* artifacts, whatever the counters of the current and the original buffer.
C21_ReservedRecomputed ==
    last.op = "art_serialize" =>
        \A c \in Range(ReservedOrder) :
            last.out[POS_reserved(c) + 1] = ReservedCount(art_state, c)

\* A serialize on a buffer that differs from the original and whose helm
\* counter is 3 with nothing reserving the helm, a side slot being reserved.
C21_Witness ==
    /\ last.op = "art_serialize"
    /\ hero_bytes # hero_bytes0
    /\ hero_bytes[POS_reserved("helm") + 1] = 3
    /\ hero_bytes[POS_reserved("side") + 1] = 0
    /\ art_state["side2"] = "Twin"
    /\ last.out[POS_reserved("helm") + 1] = 0
    /\ last.out[POS_reserved("side") + 1] = 1

\* C22: in the buffer that the worn-artifact serialize returns, each of the
\* 14 slots holds 8 blank bytes when the slot is empty or its name has no
\* catalog id, and else the 4-byte catalog id followed by 4 blank bytes,
\* whatever the bytes of the slot were.
C22_WornEncode ==
    last.op = "art_serialize" =>
        \A n \in SlotNames :
            LET w == Slice(last.out, POS(n), POS(n) + 8)
            IN  IF art_state[n] \in Artifacts("inventory")
                THEN w = itoby(IDS[art_state[n]], 4) \o <<255, 255, 255, 255>>
                ELSE w = <<255, 255, 255, 255, 255, 255, 255, 255>>

\* A serialize of a state with an empty slot whose bytes were zero, a name
\* in a spelling that is not the catalog's, and artifacts of the catalog over
\* bytes that did not end in blank bytes.
C22_Witness ==
    /\ last.op = "art_serialize"
    /\ art_state["helm"] = "helmet"
    /\ art_state["armor"] = None
    /\ Slice(hero_bytes, POS("armor"), POS("armor") + 4) = <<9, 0, 0, 0>>
    /\ Slice(hero_bytes, POS("helm"), POS("helm") + 8) = <<0, 0, 0, 0, 0, 0, 0, 0>>
    /\ art_state["side1"] = "Spell Scroll"
    /\ Slice(hero_bytes, POS("side1"), POS("side1") + 8) = <<1, 0, 0, 0, 0, 0, 0, 0>>
    /\ art_state["side2"] = "Twin"
    /\ Slice(last.out, POS("side2"), POS("side2") + 8) = <<44, 1, 0, 0, 255, 255, 255, 255>>

\* Lists one entry longer than the inventory: the entry past the end is an
\* unknown name, which is logged, or a catalog name, which raises IndexError
\* after the slots were written.
InvLongStates ==
    { [i \in 1..(InvMax + 1) |-> IF i > InvMax THEN "Bogus" ELSE "Charm"],
      [i \in 1..(InvMax + 1) |->
          IF i > InvMax THEN "Helmet" ELSE IF i = 2 THEN "" ELSE "Twin"] }

\* The inventory plugin alone, loaded, bulk-loaded and serialized, its
\* serialized buffers stored by the hero record.
NextInv ==
    \/ InvLoad
    \/ \E given \in InvStates \cup InvLongStates : InvLoadState(given)
    \/ InvSerializeCall
    \/ HeroPatch

SpecInv == InitCodec /\ [][NextInv]_vars

\* C23: in the buffer that the inventory serialize returns, slot i is at
\* offset inventory-base + 8*i; a slot whose name is no scroll and has no
\* non-zero catalog id holds the 8 bytes of the original buffer when the slot
\* was empty at load time, and 4 blank bytes followed by 4 zero bytes when it
\* held an item at load time.
C23_InventoryEncode ==
    last.op = "inv_serialize" =>
        \A i \in 1..InvMax :
            LET name == inv_state[i]
                off  == POS("inventory") + 8 * (i - 1)
                w    == Slice(last.out, off, off + 8)
            IN  IF name \in Artifacts("scroll") THEN w = itoby(IDS[name], 8)
                ELSE IF name \in Artifacts("inventory") /\ IDS[name] # <<0, 0, 0, 0>>
                THEN w = itoby(IDS[name], 4) \o <<255, 255, 255, 255>>
                ELSE IF inv_state0[i] = None
                THEN w = Slice(hero_bytes0, off, off + 8)
                ELSE w = <<255, 255, 255, 255, 0, 0, 0, 0>>

\* A serialize with a slot that held an item at load time and is empty now,
\* and a slot empty at load time and now whose bytes in the current buffer
\* are not those of the original buffer.
C23_Witness ==
    /\ last.op = "inv_serialize"
    /\ \E i \in 1..InvMax : inv_state0[i] # None /\ inv_state[i] = None
    /\ \E i \in 1..InvMax :
          /\ inv_state0[i] = None /\ inv_state[i] = None
          /\ Slice(hero_bytes, InvPos(i), InvPos(i) + 8)
                # Slice(hero_bytes0, InvPos(i), InvPos(i) + 8)
          /\ Slice(last.out, InvPos(i), InvPos(i) + 8)
                = Slice(hero_bytes0, InvPos(i), InvPos(i) + 8)

(***************************************************************************)
(* Claims: bulk loads of the three plugins                                 *)
(***************************************************************************)
\* The mappings given to ArtifactsPlugin.load_state in the runs of the three
\* bulk loads: an unknown name in the first slot with valid entries after
\* it; a name in another case, an unknown name, an empty string and an
\* unknown key; an artifact of another category with a combination artifact.
BatchLoadStates ==
    { [n \in {"helm", "side1", "side2"} |->
          IF n = "helm" THEN "bogus" ELSE IF n = "side1" THEN "" ELSE "Charm"],
      [n \in {"helm", "neck", "side5", "ring"} |->
          IF n = "helm" THEN "helmet" ELSE IF n = "neck" THEN "Bogus"
          ELSE IF n = "side5" THEN "" ELSE "Charm"],
      [n \in {"side1", "neck"} |-> IF n = "side1" THEN "Helmet" ELSE "Pendant"] }

\* The three plugins loaded and bulk-loaded on one hero record.
NextLoads ==
    \/ ArmyLoad
    \/ ArtLoad
    \/ InvLoad
    \/ \E given \in ArmyStates \cup {<<[count |-> Num(5)], Row("", Num(5)),
                                        Row("Pikeman", Num(2))>>} :
          ArmyLoadState(given)
    \/ \E given \in BatchLoadStates : ArtLoadState(given)
    \/ \E given \in InvStates \cup InvLongStates \cup {<<"Bogus", "Charm">>} :
          InvLoadState(given)

SpecLoads == InitCodec /\ [][NextLoads]_vars

\* A name that is truthy and, in any case, no name of the set.
Unknown(names, v) == Truthy(v) /\ ~InCmap(names, Lower(v))

\* An army entry that load_state logs as invalid: a non-empty entry that
\* fails the test of a catalog creature with a count in 1..2^32-1, also one
\* with no name or no count.
ArmyEntryInvalid(v) ==
    LET name  == RowGet(v, "name")
        count == RowGet(v, "count")
    IN  /\ v # EmptyRow
        /\ ~(/\ Truthy(name)
             /\ InCmap(Creatures, Lower(name))
             /\ count # NoCount
             /\ Leq(CountMin, count) /\ Leq(count, CountMax))

\* The entries of a worn mapping that the first pass of load_state stores:
\* those of a slot name whose value is empty or, in any case, an artifact of
\* the slot's category. The others are logged as invalid or, under a key
\* that is no slot, never looked at.
WithoutInvalid(given) ==
    [n \in {k \in DOMAIN given \cap SlotNames :
                \/ ~Truthy(given[k])
                \/ InCmap(Artifacts(PropSlot(k)), Lower(given[k]))} |-> given[n]]

\* C24: a bulk load discards an entry whose name is unknown to the catalog
\* or, for the army, whose count is outside 1..2^32-1: the slot keeps its
\* previous value or is empty, the call returns, and the entries that are
\* not invalid are applied as they are without the invalid ones. An unknown
\* name past the end of the inventory is discarded as well. The same holds
\* of the other entries the loads take as invalid: an army entry with no
\* name or no count, a worn artifact of another category than the slot's.
C24_InvalidEntriesDiscarded ==
    [][ /\ last'.op \in {"army_load_state", "load_state"} => last'.raised = None
        /\ last'.op = "army_load_state" =>
              \A i \in DOMAIN last'.arg :
                  LET v == last'.arg[i]
                  IN  i <= ArmyMax =>
                         IF ArmyEntryInvalid(v)
                         THEN army_state'[i] \in {army_state[i], EmptyRow}
                         ELSE IF DOMAIN v = {"name", "count"} /\ Truthy(v.name)
                         THEN army_state'[i] = Row(Cmap(Creatures, Lower(v.name)), v.count)
                         ELSE army_state'[i] = EmptyRow
        /\ last'.op = "inv_load_state" =>
              /\ \A i \in DOMAIN last'.arg \cap (1..InvMax) :
                    LET v == last'.arg[i]
                    IN  IF Unknown(Artifacts("inventory"), v)
                        THEN inv_state'[i] \in {inv_state[i], None}
                        ELSE IF Truthy(v)
                        THEN inv_state'[i] = Cmap(Artifacts("inventory"), Lower(v))
                        ELSE inv_state'[i] = None
              /\ (\A i \in DOMAIN last'.arg \ (1..InvMax) :
                      Unknown(Artifacts("inventory"), last'.arg[i])) =>
                    last'.raised = None
        /\ last'.op = "load_state" =>
              /\ \A n \in DOMAIN last'.arg \cap SlotNames :
                    Unknown(Artifacts("inventory"), last'.arg[n]) =>
                        art_state'[n] \in {art_state[n], None}
              /\ \A known \in
                     { [n \in {k \in DOMAIN last'.arg :
                                  ~Unknown(Artifacts("inventory"), last'.arg[k])}
                          |-> last'.arg[n]],
                       WithoutInvalid(last'.arg) } :
                    \E r \in {load_state(art_state, hero_stats, hero_basestats, known)} :
                        /\ art_state' = r.state
                        /\ hero_stats' = r.stats
      ]_vars

\* The three bulk loads have each discarded an invalid entry and applied a
\* valid one after it: a worn slot keeps its artifact under an unknown
\* name, an inventory slot keeps its item, an army slot is left empty.
C24_Witness ==
    /\ last.op = "load_state"
    /\ "helm" \in DOMAIN last.arg /\ last.arg["helm"] = "bogus"
    /\ art_state["helm"] = "Crown"
    /\ art_state["side1"] = ""
    /\ art_state["side2"] = "Charm"
    /\ InvLoaded /\ inv_state = <<"Helmet", "Charm", None>>
    /\ inv_state0 = <<"Helmet", "Spell Scroll", None>>
    /\ ArmyLoaded /\ army_state[4] = EmptyRow /\ army_state[2] = Row("Pikeman", Num(1))
    /\ army_state[1] = Row("Archer", <<65535, 65535, 0, 0>>)

(***************************************************************************)
(* Claims: frame of the encoders                                           *)
(***************************************************************************)
\* The 0-based offsets of the bytes a plugin's serialize writes.
OwnBytes(op) ==
    CASE op = "army_serialize" ->
            {POS("army_types") + k : k \in 0..(4 * ArmyMax - 1)}
               \cup {POS("army_counts") + k : k \in 0..(4 * ArmyMax - 1)}
      [] op = "art_serialize" ->
            UNION {{POS(n) + k : k \in 0..7} : n \in SlotNames}
               \cup {POS_reserved(c) : c \in Range(ReservedOrder)}
      [] op = "inv_serialize" ->
            {POS("inventory") + k : k \in 0..(8 * InvMax - 1)}

\* C25: the buffer a serialize returns is as long as the hero's current
\* buffer and differs from it only at the bytes of the plugin's own ranges;
\* the call changes neither the current buffer, nor the original buffer,
\* nor any plugin's logical state.
C25_EncodeFrame ==
    [][ last'.op \in SerializeOps =>
          /\ Len(last'.out) = Len(hero_bytes)
          /\ \A k \in (0..(Len(hero_bytes) - 1)) \ OwnBytes(last'.op) :
                last'.out[k + 1] = hero_bytes[k + 1]
          /\ hero_bytes' = hero_bytes
          /\ hero_bytes0' = hero_bytes0
          /\ art_state' = art_state
          /\ army_state' = army_state /\ army_state0' = army_state0
          /\ inv_state' = inv_state /\ inv_state0' = inv_state0
          /\ hero_stats' = hero_stats
      ]_vars

\* An inventory serialize that changes bytes of its range, on a current
\* buffer in which the worn-artifact and army ranges already differ from
\* the original buffer.
C25_Witness ==
    /\ last.op = "inv_serialize"
    /\ last.out # hero_bytes
    /\ \E k \in OwnBytes("art_serialize") : hero_bytes[k + 1] # hero_bytes0[k + 1]
    /\ \E k \in OwnBytes("army_serialize") : hero_bytes[k + 1] # hero_bytes0[k + 1]
    /\ \A k \in 0..(Len(hero_bytes) - 1) :
          last.out[k + 1] # hero_bytes[k + 1] => k \in OwnBytes("inv_serialize")

(***************************************************************************)
(* Claims: removal and conflict categories                                 *)
(***************************************************************************)
\* No category is over-subscribed and every donned artifact sits in a slot
\* of its first occupied category.
ConflictFree(state) ==
    /\ NoOversubscription(state)
    /\ \A n \in SlotNames :
          Truthy(state[n]) =>
              /\ state[n] \in DOMAIN ARTIFACT_SLOTS
              /\ ARTIFACT_SLOTS[state[n]][1] = PropSlot(n)

\* C26: from a configuration with no over-subscribed category in which every
\* donned artifact sits in a slot of its first occupied category, an equip
\* that sets an occupied slot to empty is accepted, empties the slot and
\* leaves a configuration of the same kind.
C26_RemovalAccepted ==
    [][ (/\ Called(last')
         /\ ~Truthy(last'.value)
         /\ Truthy(art_state[last'.name])
         /\ ConflictFree(art_state)) =>
            /\ last'.ret = TRUE
            /\ last'.report = {}
            /\ art_state' = [art_state EXCEPT ![last'.name] = None]
            /\ ConflictFree(art_state')
      ]_vars

\* An artifact has been removed from a side row that was full, one of the
\* five side capacities being reserved by a combination artifact.
C26_Witness ==
    /\ last.op = "on_change"
    /\ last.value = ""
    /\ last.ret = TRUE
    /\ last.name \in SideSlots
    /\ art_state[last.name] = None
    /\ art_state["neck"] = "Pendant"
    /\ Consumed(art_state, None, "side") = 4
    /\ ConflictFree(art_state)

\* The categories whose free count an equip of v into slot s takes from:
\* the category of s and the categories v occupies after its first.
Touched(s, v) == {PropSlot(s)} \cup Range(Rest(SlotsGet(v)))

\* C27: the conflict categories reported for an equip of v into slot s, and
\* for a slot s holding v that a bulk load clears, are among the category of
\* s and the categories v occupies.
C27_ConflictsAmongTouched ==
    /\ last.op = "on_change" =>
          \A e \in last.report : e[1] \in Touched(last.name, OrNone(last.value))
    /\ last.op = "load_state" =>
          \A cleared \in last.report :
              \A e \in cleared[3] : e[1] \in Touched(cleared[1], cleared[2])

(***************************************************************************)
(* Claims: spelling of the names a bulk load stores                        *)
(***************************************************************************)
\* C28: after a bulk load, every non-empty army row holds a catalog
\* creature, every non-empty inventory slot a catalog artifact, and every
\* worn slot whose entry was accepted, also one that matched in another
\* case, is empty or holds, in the catalog's spelling, an artifact of the
\* slot's category.
C28_CatalogSpelling ==
    /\ last.op = "army_load_state" =>
          \A i \in DOMAIN army_state :
              army_state[i] = EmptyRow \/ RowGet(army_state[i], "name") \in Creatures
    /\ last.op = "inv_load_state" =>
          \A i \in DOMAIN inv_state :
              inv_state[i] = None \/ inv_state[i] \in Artifacts("inventory")
    /\ last.op = "load_state" =>
          \A n \in DOMAIN last.arg \cap SlotNames :
              InCmap(Artifacts(PropSlot(n)), Lower(last.arg[n])) =>
                  ~Truthy(art_state[n]) \/ art_state[n] \in Artifacts(PropSlot(n))

====
